---- MODULE Spec2Model ----
(***************************************************************************)
(* SmartOrchestrator (src/orchestrator/app/orchestrator.py): the agent     *)
(* registry, the skill-keyword index derived from it, request scoring and  *)
(* selection, and the analyze -> route pipeline of process_request.        *)
(*                                                                         *)
(* Strings are sequences of one-character strings, so that lower(),        *)
(* replace(), split() and the substring test `in` are computed.  Scores    *)
(* are floats in the source; every score is a sum of 1.0 and 1.5, or the   *)
(* fallback 0.3, so they are held exactly in tenths, and confidences       *)
(* (score / 5.0, capped at 1.0) in hundredths.                             *)
(***************************************************************************)
EXTENDS Integers, Sequences, FiniteSets, TLC

VARIABLES
    phase,          \* "boot" while __init__ runs, then "ready"
    bootIdx,        \* position of _fetch_all_agent_cards in default_agents
    agents,         \* self.agents: insertion-ordered dict, <<[id, card], ...>>
    skill_keywords, \* self.skill_keywords: skill name -> list of keywords
    calls,          \* the RouterState and position of each process_request call
    last,           \* the registry operation that ran last, with its result:
                    \* __init__ with what it fetched, then (under SpecRegistry
                    \* only) the operation that returned last
    before          \* registry and index as they stood before the last fresh registration

vars == <<phase, bootIdx, agents, skill_keywords, calls, last, before>>

(***************************************************************************)
(* Bounds of the model.                                                    *)
(***************************************************************************)
\* register_agent / add_agent insert a new key only below this size
MaxAgents == 2

(***************************************************************************)
(* Strings.                                                                *)
(***************************************************************************)
UpperCase == <<"A", "B", "C", "D", "E", "F", "G", "H", "I", "J", "K", "L", "M",
               "N", "O", "P", "Q", "R", "S", "T", "U", "V", "W", "X", "Y", "Z">>

LowerCase == <<"a", "b", "c", "d", "e", "f", "g", "h", "i", "j", "k", "l", "m",
               "n", "o", "p", "q", "r", "s", "t", "u", "v", "w", "x", "y", "z">>

\* the characters that are no letters
Others == {" ", "_", "+", "?", ":", "/", "0", "1", "2", "3", "4", "5", "6", "7", "8", "9"}

Alphabet == {UpperCase[i] : i \in 1..26} \cup {LowerCase[i] : i \in 1..26} \cup Others

LowerTable ==
    [c \in Alphabet |->
        IF \E i \in 1..26 : UpperCase[i] = c
        THEN LowerCase[CHOOSE i \in 1..26 : UpperCase[i] = c]
        ELSE c]

UpperTable ==
    [c \in Alphabet |->
        IF \E i \in 1..26 : LowerCase[i] = c
        THEN UpperCase[CHOOSE i \in 1..26 : LowerCase[i] = c]
        ELSE c]

LowerChar(c) == LowerTable[c]

UpperChar(c) == UpperTable[c]

\* str.lower()
Lower(s) == [i \in 1..Len(s) |-> LowerChar(s[i])]

\* str.upper()
Upper(s) == [i \in 1..Len(s) |-> UpperChar(s[i])]

\* str.replace("_", " ")
ReplaceUnderscore(s) == [i \in 1..Len(s) |-> IF s[i] = "_" THEN " " ELSE s[i]]

\* k in s, for strings
IsSubstring(k, s) ==
    \E i \in 0..(Len(s) - Len(k)) : \A j \in 1..Len(k) : s[i + j] = k[j]

\* str.split(): the maximal runs of non-blank characters, in order
RECURSIVE SplitFrom(_, _, _)
SplitFrom(s, i, word) ==
    IF i > Len(s)
    THEN IF word = <<>> THEN <<>> ELSE <<word>>
    ELSE IF s[i] = " "
         THEN IF word = <<>>
              THEN SplitFrom(s, i + 1, <<>>)
              ELSE <<word>> \o SplitFrom(s, i + 1, <<>>)
         ELSE SplitFrom(s, i + 1, Append(word, s[i]))

Split(s) == SplitFrom(s, 1, <<>>)

\* list[:n]
Take(list, n) == SubSeq(list, 1, IF Len(list) < n THEN Len(list) ELSE n)

\* x in list
InList(x, list) == \E i \in 1..Len(list) : list[i] = x

Min(a, b) == IF a < b THEN a ELSE b

(***************************************************************************)
(* The agent cards the endpoints of the model serve.                       *)
(***************************************************************************)
Localhost == <<"h", "t", "t", "p", ":", "/", "/", "l", "o", "c", "a", "l", "h", "o", "s", "t", ":", "8", "0", "0">>
Url1 == Localhost \o <<"1">>
Url2 == Localhost \o <<"2">>
Url3 == Localhost \o <<"3">>
Url4 == Url1 \o <<"/", "v", "2">>

NameMath == <<"M", "a", "t", "h", " ", "A", "g", "e", "n", "t">>
NameCurrency == <<"C", "u", "r", "r", "e", "n", "c", "y", " ", "A", "g", "e", "n", "t">>
NameArgo == <<"A", "r", "g", "o", "C", "D", " ", "A", "g", "e", "n", "t">>
NameMathLower == Lower(NameMath)

SkillAdd == <<"a", "d", "d">>
SkillCurrencyExchange == <<"c", "u", "r", "r", "e", "n", "c", "y", "_", "e", "x", "c", "h", "a", "n", "g", "e">>
SkillSyncOps == <<"s", "y", "n", "c", "_", "o", "p", "s">>
SkillK8s == <<"k", "8", "s", "_", "m", "g", "m", "t">>

TagUsd == <<"u", "s", "d">>
TagInr == <<"i", "n", "r">>

CardMath ==
    [name |-> NameMath, url |-> Url1,
     skills |-> << [name |-> SkillAdd,
                    description |-> <<"A", "d", "d", " ", "u", "p", " ", "T", "W", "O", " ", "n", "u", "m", "b", "e", "r", "s">>,
                    tags |-> << <<"S", "u", "m">>, <<"s", "u", "m">>, <<"+">> >>] >>]

CardCurrency ==
    [name |-> NameCurrency, url |-> Url2,
     skills |-> << [name |-> SkillCurrencyExchange,
                    description |-> <<"C", "o", "n", "v", "e", "r", "t", " ", "c", "u", "r", "r", "e", "n", "c", "y", " ", "v", "a", "l", "u", "e", "s", " ", "n", "o", "w">>,
                    tags |-> <<TagUsd, TagInr>>] >>]

\* the same agent after a redeployment: another description
CardCurrency2 ==
    [name |-> NameCurrency, url |-> Url2,
     skills |-> << [name |-> SkillCurrencyExchange,
                    description |-> <<"E", "x", "c", "h", "a", "n", "g", "e", " ", "m", "o", "n", "e", "y">>,
                    tags |-> <<TagUsd, TagInr>>] >>]

CardArgo ==
    [name |-> NameArgo, url |-> Url3,
     skills |-> << [name |-> SkillSyncOps,
                    description |-> <<"S", "y", "n", "c", " ", "a", "p", "p", "s">>,
                    tags |-> << <<"s", "y", "n", "c">>, <<"a", "p", "p">> >>],
                   [name |-> SkillK8s,
                    description |-> <<"M", "a", "n", "a", "g", "e", " ", "k", "u", "b", "e">>,
                    tags |-> << <<"k", "u", "b", "e">> >>] >>]

\* a second math agent: lower-case name, a URL that extends Url1, the skill
\* name of CardMath, no description
CardMath2 ==
    [name |-> NameMathLower, url |-> Url4,
     skills |-> << [name |-> SkillAdd, description |-> <<>>,
                    tags |-> << <<"p", "l", "u", "s">> >>] >>]

Cards == {CardMath, CardCurrency, CardCurrency2, CardArgo, CardMath2}

\* what A2ACardResolver.get_agent_card can return for an endpoint; a failed
\* fetch is NoCard (None)
NoCard == [name |-> <<"None">>, url |-> <<>>, skills |-> <<>>]

Endpoints == {Url1, Url2, Url3, Url4}

Served(endpoint) ==
    CASE endpoint = Url1 -> {CardMath}
      [] endpoint = Url2 -> {CardCurrency, CardCurrency2}
      [] endpoint = Url3 -> {CardArgo}
      [] endpoint = Url4 -> {CardMath2}
      [] OTHER -> {}

\* default_agents of _initialize_default_agents
DefaultAgents == <<Url1, Url2, Url3>>

\* the default agent identity of _analyze_request
DefaultAgentId == <<"a", "r", "g", "o", "c", "d">>

RequestCurrency == <<"h", "o", "w", " ", "m", "u", "c", "h", " ", "i", "s", " ", "1", "0", " ", "U", "S", "D", " ", "i", "n", " ", "I", "N", "R", "?">>

\* the request texts scored against the cards
ScoredRequests ==
    { <<"h", "o", "w", " ", "m", "u", "c", "h", " ", "i", "s", " ", "1", "0", " ", "U", "S", "D", " ", "i", "n", " ", "I", "N", "R", "?">>,
      <<"h", "e", "l", "l", "o">>,
      <<"a", "d", "d">>,
      <<"p", "l", "u", "s">>,
      <<"S", "U", "M", " ", "p", "l", "u", "s">>,
      <<"s", "y", "n", "c", " ", "k", "u", "b", "e">>,
      <<"s", "y", "n", "c", " ", "m", "y", " ", "k", "u", "b", "e", " ", "a", "p", "p">> }

\* the request texts sent through process_request
Requests == ScoredRequests \ { <<"h", "e", "l", "l", "o">>, <<"p", "l", "u", "s">> }

(***************************************************************************)
(* Python dicts.  self.agents keeps insertion order, which the scoring     *)
(* loop and unregister_agent iterate in: a sequence of [id, card] items.   *)
(* The other dicts are only looked up by key: functions.                   *)
(***************************************************************************)
EmptyDict == [k \in {} |-> <<>>]

DictPut(d, k, v) == [x \in (DOMAIN d) \cup {k} |-> IF x = k THEN v ELSE d[x]]

DictGet(d, k, default) == IF k \in DOMAIN d THEN d[k] ELSE default

\* the keys of self.agents
Keys(ags) == {ags[i].id : i \in 1..Len(ags)}

HasKey(ags, k) == \E i \in 1..Len(ags) : ags[i].id = k

\* self.agents[k], for a key that is present
Lookup(ags, k) == ags[CHOOSE i \in 1..Len(ags) : ags[i].id = k].card

\* self.agents[k] = card: a present key keeps its position, a new key goes last
\* SetAgent as a list append: a key that exists gets a second entry
SetAgentAppend(ags, k, card) == Append(ags, [id |-> k, card |-> card])

\* SetAgent that moves a key that exists to the end
SetAgentMovesToEnd(ags, k, card) ==
    Append(SelectSeq(ags, LAMBDA item : item.id # k), [id |-> k, card |-> card])

SetAgent(ags, k, card) ==
    IF HasKey(ags, k)
    THEN [i \in 1..Len(ags) |-> IF ags[i].id = k THEN [id |-> k, card |-> card] ELSE ags[i]]
    ELSE Append(ags, [id |-> k, card |-> card])

\* del self.agents[k]
DelAgent(ags, k) == SelectSeq(ags, LAMBDA item : item.id # k)

(***************************************************************************)
(* _update_skill_keywords: the index is rebuilt from the whole registry.   *)
(***************************************************************************)
\* if w not in [kw.lower() for kw in keywords]: keywords.append(w)
AppendNew(keywords, w) ==
    IF InList(w, [i \in 1..Len(keywords) |-> Lower(keywords[i])])
    THEN keywords
    ELSE Append(keywords, w)

RECURSIVE AddTags(_, _, _)
AddTags(keywords, tags, i) ==
    IF i > Len(tags) THEN keywords
    ELSE AddTags(AppendNew(keywords, Lower(tags[i])), tags, i + 1)

\* AddDescWords with `>= 2` for `> 2`: two-letter words become keywords
RECURSIVE AddDescWordsKeepShort(_, _, _)
AddDescWordsKeepShort(keywords, words, i) ==
    IF i > Len(words) THEN keywords
    ELSE AddDescWordsKeepShort(IF Len(words[i]) >= 2 THEN AppendNew(keywords, words[i]) ELSE keywords,
                               words, i + 1)

RECURSIVE AddDescWords(_, _, _)
AddDescWords(keywords, words, i) ==
    IF i > Len(words) THEN keywords
    ELSE AddDescWords(IF Len(words[i]) > 2 THEN AppendNew(keywords, words[i]) ELSE keywords,
                      words, i + 1)

\* the keyword list of one skill name after one more skill of that name
SkillKeywords(keywords, skill) ==
    LET withTags == AddTags(keywords, skill.tags, 1)
        withName == AppendNew(withTags, ReplaceUnderscore(Lower(skill.name)))
    IN  IF skill.description # <<>>
        THEN AddDescWords(withName, Take(Split(Lower(skill.description)), 3), 1)
        ELSE withName

RECURSIVE IndexSkills(_, _, _)
IndexSkills(index, skills, j) ==
    IF j > Len(skills) THEN index
    ELSE IndexSkills(DictPut(index, skills[j].name,
                             SkillKeywords(DictGet(index, skills[j].name, <<>>), skills[j])),
                     skills, j + 1)

RECURSIVE IndexAgents(_, _, _)
IndexAgents(index, ags, i) ==
    IF i > Len(ags) THEN index
    ELSE IndexAgents(IndexSkills(index, ags[i].card.skills, 1), ags, i + 1)

UpdateSkillKeywords(ags) == IndexAgents(EmptyDict, ags, 1)

(***************************************************************************)
(* Scoring: _calculate_agent_score and _skill_matches_request.             *)
(***************************************************************************)
\* +1.0 per matching tag, +1.5 per matching skill, in tenths
KeywordWeight == 10
SkillWeight == 15
\* the score of the default agent (0.3) and the calibration ceiling (5.0)
DefaultScore == 3
ConfidenceCeiling == 50

\* [tag for skill in agent_card.skills for tag in (skill.tags or [])]
RECURSIVE AllTags(_, _)
AllTags(skills, j) ==
    IF j > Len(skills) THEN <<>> ELSE skills[j].tags \o AllTags(skills, j + 1)

SkillMatchesRequest(skill_name, request, index) ==
    LET keywords == DictGet(index, skill_name, <<>>)
    IN  \E i \in 1..Len(keywords) : IsSubstring(keywords[i], Lower(request))

\* KeywordScore without keyword.lower(): a tag matches in its own case only
RECURSIVE KeywordScoreCaseSensitive(_, _, _)
KeywordScoreCaseSensitive(keywords, request_lower, i) ==
    IF i > Len(keywords) THEN 0
    ELSE (IF IsSubstring(keywords[i], request_lower) THEN KeywordWeight ELSE 0)
         + KeywordScoreCaseSensitive(keywords, request_lower, i + 1)

RECURSIVE KeywordScore(_, _, _)
KeywordScore(keywords, request_lower, i) ==
    IF i > Len(keywords) THEN 0
    ELSE (IF IsSubstring(Lower(keywords[i]), request_lower) THEN KeywordWeight ELSE 0)
         + KeywordScore(keywords, request_lower, i + 1)

RECURSIVE SkillScore(_, _, _, _)
SkillScore(skills, request, index, j) ==
    IF j > Len(skills) THEN [score |-> 0, matched_skills |-> <<>>]
    ELSE LET rest == SkillScore(skills, request, index, j + 1)
         IN  IF SkillMatchesRequest(skills[j].name, request, index)
             THEN [score |-> SkillWeight + rest.score,
                   matched_skills |-> <<skills[j].name>> \o rest.matched_skills]
             ELSE rest

\* CalculateAgentScore with the tags tested against the request as typed,
\* not against request.lower()
CalculateAgentScoreRawRequest(request, agent_card, index) ==
    LET bySkill == SkillScore(agent_card.skills, request, index, 1)
    IN  [score |-> KeywordScore(AllTags(agent_card.skills, 1), request, 1) + bySkill.score,
         matched_skills |-> bySkill.matched_skills]

CalculateAgentScore(request, agent_card, index) ==
    LET bySkill == SkillScore(agent_card.skills, request, index, 1)
    IN  [score |-> KeywordScore(AllTags(agent_card.skills, 1), Lower(request), 1) + bySkill.score,
         matched_skills |-> bySkill.matched_skills]

(***************************************************************************)
(* _generate_reasoning: the parts that " ".join puts together.             *)
(***************************************************************************)
RECURSIVE MatchedKeywords(_, _, _)
MatchedKeywords(keywords, request_lower, i) ==
    IF i > Len(keywords) THEN <<>>
    ELSE (IF IsSubstring(Lower(keywords[i]), request_lower) THEN <<keywords[i]>> ELSE <<>>)
         \o MatchedKeywords(keywords, request_lower, i + 1)

\* GenerateReasoning that names the registry key, not the name of the card
GenerateReasoningNamesKey(request, selected_agent, ags, skill_matches) ==
    LET agent_card == Lookup(ags, selected_agent)
        matched_keywords == MatchedKeywords(AllTags(agent_card.skills, 1), Lower(request), 1)
        matched_skills == DictGet(skill_matches, selected_agent, <<>>)
    IN  << [part |-> "Selected", items |-> <<selected_agent>>] >>
        \o (IF matched_keywords # <<>>
            THEN << [part |-> "based on keywords:", items |-> matched_keywords] >>
            ELSE <<>>)
        \o (IF matched_skills # <<>>
            THEN << [part |-> (IF matched_keywords # <<>> THEN "and skills:" ELSE "based on skills:"),
                     items |-> matched_skills] >>
            ELSE <<>>)
        \o (IF matched_keywords = <<>> /\ matched_skills = <<>>
            THEN << [part |-> "using default ArgoCD agent", items |-> <<>>] >>
            ELSE <<>>)

\* the caller makes sure that selected_agent is a key of the registry
GenerateReasoning(request, selected_agent, ags, skill_matches) ==
    LET agent_card == Lookup(ags, selected_agent)
        matched_keywords == MatchedKeywords(AllTags(agent_card.skills, 1), Lower(request), 1)
        matched_skills == DictGet(skill_matches, selected_agent, <<>>)
    IN  << [part |-> "Selected", items |-> <<agent_card.name>>] >>
        \o (IF matched_keywords # <<>>
            THEN << [part |-> "based on keywords:", items |-> matched_keywords] >>
            ELSE <<>>)
        \o (IF matched_skills # <<>>
            THEN << [part |-> (IF matched_keywords # <<>> THEN "and skills:" ELSE "based on skills:"),
                     items |-> matched_skills] >>
            ELSE <<>>)
        \o (IF matched_keywords = <<>> /\ matched_skills = <<>>
            THEN << [part |-> "using default ArgoCD agent", items |-> <<>>] >>
            ELSE <<>>)

(***************************************************************************)
(* _analyze_request: the scoring loop over the registry, the fallback and  *)
(* the confidence.                                                         *)
(***************************************************************************)
NoAgent == <<"None">>

\* ScoreLoop with `>=` for `>`: a later agent with an equal score replaces
\* an earlier one
RECURSIVE ScoreLoopLastWins(_, _, _, _, _)
ScoreLoopLastWins(ags, index, request, i, acc) ==
    IF i > Len(ags) THEN acc
    ELSE LET r == CalculateAgentScore(request, ags[i].card, index)
             better == r.score >= acc.best_score
         IN  ScoreLoopLastWins(ags, index, request, i + 1,
                       [best_agent |-> IF better THEN ags[i].id ELSE acc.best_agent,
                        best_score |-> IF better THEN r.score ELSE acc.best_score,
                        agent_scores |-> DictPut(acc.agent_scores, ags[i].id, r.score),
                        skill_matches |-> DictPut(acc.skill_matches, ags[i].id, r.matched_skills)])

\* the loop of lines 244-251, from item i on, with the best so far
RECURSIVE ScoreLoop(_, _, _, _, _)
ScoreLoop(ags, index, request, i, acc) ==
    IF i > Len(ags) THEN acc
    ELSE LET r == CalculateAgentScore(request, ags[i].card, index)
             better == r.score > acc.best_score
         IN  ScoreLoop(ags, index, request, i + 1,
                       [best_agent |-> IF better THEN ags[i].id ELSE acc.best_agent,
                        best_score |-> IF better THEN r.score ELSE acc.best_score,
                        agent_scores |-> DictPut(acc.agent_scores, ags[i].id, r.score),
                        skill_matches |-> DictPut(acc.skill_matches, ags[i].id, r.matched_skills)])

SelectBest(ags, index, request) ==
    ScoreLoop(ags, index, request, 1,
              [best_agent |-> NoAgent, best_score |-> 0,
               agent_scores |-> EmptyDict, skill_matches |-> EmptyDict])

\* Confidence without the cap at 1.0
ConfidenceUncapped(best_score) == (best_score * 100) \div ConfidenceCeiling

\* min(best_score / 5.0, 1.0), in hundredths
Confidence(best_score) == Min((best_score * 100) \div ConfidenceCeiling, 100)

\* the outcome of _analyze_request: the update of the state, or the KeyError
\* that _generate_reasoning raises for a selected agent that is no key
AnalyzeRequest(ags, index, request) ==
    LET loop == SelectBest(ags, index, request)
        fallback == loop.best_agent = NoAgent
        best_agent == IF fallback THEN DefaultAgentId ELSE loop.best_agent
        best_score == IF fallback THEN DefaultScore ELSE loop.best_score
    IN  IF ~HasKey(ags, best_agent)
        THEN [raised |-> TRUE, key |-> best_agent, best_score |-> best_score]
        ELSE [raised |-> FALSE,
              selected_agent |-> best_agent,
              best_score |-> best_score,
              confidence |-> Confidence(best_score),
              reasoning |-> GenerateReasoning(request, best_agent, ags, loop.skill_matches),
              agent_scores |-> loop.agent_scores,
              skill_matches |-> loop.skill_matches]

(***************************************************************************)
(* unregister_agent: the search for the entry to remove.                   *)
(***************************************************************************)
\* the if / elif chain of lines 159-177 for one entry: the form by which the
\* identifier matches it
\* MatchForm with the operands of the last test swapped (url in identifier)
MatchFormUrlInIdentifier(item, agent_identifier) ==
    IF item.id = agent_identifier THEN "agent_id"
    ELSE IF item.card.url = agent_identifier THEN "url"
    ELSE IF Lower(item.card.name) = Lower(agent_identifier) THEN "name"
    ELSE IF IsSubstring(item.card.url, agent_identifier) THEN "partial_url"
    ELSE "none"

MatchForm(item, agent_identifier) ==
    IF item.id = agent_identifier THEN "agent_id"
    ELSE IF item.card.url = agent_identifier THEN "url"
    ELSE IF Lower(item.card.name) = Lower(agent_identifier) THEN "name"
    ELSE IF IsSubstring(agent_identifier, item.card.url) THEN "partial_url"
    ELSE "none"

MatchesEntry(item, agent_identifier) == MatchForm(item, agent_identifier) # "none"

\* the for loop of lines 157-177: the position of the first entry, in
\* registry order, that the chain accepts; 0 when the loop runs out
RECURSIVE FindAgent(_, _, _)
FindAgent(ags, agent_identifier, i) ==
    IF i > Len(ags) THEN 0
    ELSE IF MatchesEntry(ags[i], agent_identifier) THEN i
    ELSE FindAgent(ags, agent_identifier, i + 1)

\* the result of unregister_agent: the registry afterwards and the envelope
UnregisterResult(ags, agent_identifier) ==
    LET found == FindAgent(ags, agent_identifier, 1)
    IN  \* `if agent_to_remove and agent_id_to_remove`: an empty key is falsy
        IF found # 0 /\ ags[found].id # <<>>
        THEN [agents |-> DelAgent(ags, ags[found].id),
              result |-> [success |-> TRUE,
                          agent_id |-> ags[found].id,
                          agent_name |-> ags[found].card.name,
                          endpoint |-> ags[found].card.url,
                          message |-> "Successfully unregistered"]]
        ELSE [agents |-> ags,
              result |-> [success |-> FALSE, error |-> "Agent not found"]]

\* RegisterResult that records the endpoint of a failed fetch as an entry
RegisterResultKeepsFailed(ags, endpoint, agent_card) ==
    IF agent_card # NoCard
    THEN [agents |-> SetAgent(ags, agent_card.name, agent_card),
          result |-> [success |-> TRUE,
                      agent_id |-> agent_card.name,
                      agent_name |-> agent_card.name,
                      endpoint |-> endpoint,
                      message |-> "Successfully registered"]]
    ELSE [agents |-> SetAgent(ags, endpoint, NoCard),
          result |-> [success |-> FALSE, error |-> "Failed to fetch agent card"]]

\* the result of register_agent once the fetch has answered with agent_card
RegisterResult(ags, endpoint, agent_card) ==
    IF agent_card # NoCard
    THEN [agents |-> SetAgent(ags, agent_card.name, agent_card),
          result |-> [success |-> TRUE,
                      agent_id |-> agent_card.name,
                      agent_name |-> agent_card.name,
                      endpoint |-> endpoint,
                      message |-> "Successfully registered"]]
    ELSE [agents |-> ags,
          result |-> [success |-> FALSE, error |-> "Failed to fetch agent card"]]

(***************************************************************************)
(* Inputs of the operations.                                               *)
(***************************************************************************)
\* add_agent(agent_id, agent_card)
AddInputs ==
    { [agent_id |-> DefaultAgentId, card |-> CardArgo],
      [agent_id |-> NameMath, card |-> CardMath2] }

\* unregister_agent(agent_identifier)
Identifiers ==
    { NameMath, NameMathLower, NameCurrency, Upper(NameArgo),
      Url1, Url2, Url4,
      <<"l", "o", "c", "a", "l", "h", "o", "s", "t">>, <<":", "8", "0", "0", "3">>,
      DefaultAgentId, <<"n", "o", "b", "o", "d", "y">> }

\* identifiers that reach every agent of the model by its id or its name
KeyIdentifiers ==
    { NameMath, NameMathLower, NameCurrency, Upper(NameArgo), DefaultAgentId }

Calls == {"c1"}

\* the calls of a run with two requests at a time
ConcurrentCalls == {"c1", "c2"}

\* what _forward_request_to_agent does for its caller: it returns a
\* response text or raises
ForwardOutcomes == {[raised |-> FALSE, text |-> "agent response"],
                    [raised |-> TRUE, text |-> "Request forwarding failed"]}

(***************************************************************************)
(* The state machine.                                                      *)
(***************************************************************************)
NoOp == [op |-> "none"]
\* __init__ before the first fetch: `fetched` lists what each fetch returned
NoFetches == [op |-> "__init__", fetched |-> <<>>]
NoBefore == [valid |-> FALSE]
IdleCall == [pc |-> "idle"]

Init ==
    /\ phase = "boot"
    /\ bootIdx = 1
    /\ agents = <<>>
    /\ skill_keywords = EmptyDict
    /\ calls = [c \in Calls |-> IdleCall]
    /\ last = NoFetches
    /\ before = NoBefore

\* BootFetch without the try/except of the loop: a failed fetch ends it
BootFetchStopsAtFailure ==
    /\ phase = "boot"
    /\ bootIdx <= Len(DefaultAgents)
    /\ \E agent_card \in Served(DefaultAgents[bootIdx]) \cup {NoCard} :
          /\ agents' = IF agent_card # NoCard
                       THEN SetAgent(agents, agent_card.name, agent_card)
                       ELSE agents
          /\ last' = [last EXCEPT !.fetched = Append(@, agent_card)]
          /\ bootIdx' = IF agent_card # NoCard
                        THEN bootIdx + 1
                        ELSE Len(DefaultAgents) + 1
    /\ UNCHANGED <<phase, skill_keywords, calls, before>>

\* one iteration of the loop of _fetch_all_agent_cards: a card that was
\* fetched is stored under its name, a failure is skipped
BootFetch ==
    /\ phase = "boot"
    /\ bootIdx <= Len(DefaultAgents)
    /\ \E agent_card \in Served(DefaultAgents[bootIdx]) \cup {NoCard} :
          /\ agents' = IF agent_card # NoCard
                       THEN SetAgent(agents, agent_card.name, agent_card)
                       ELSE agents
          /\ last' = [last EXCEPT !.fetched = Append(@, agent_card)]
    /\ bootIdx' = bootIdx + 1
    /\ UNCHANGED <<phase, skill_keywords, calls, before>>

\* the end of _fetch_all_agent_cards, and of __init__
BootFinish ==
    /\ phase = "boot"
    /\ bootIdx > Len(DefaultAgents)
    /\ skill_keywords' = UpdateSkillKeywords(agents)
    /\ phase' = "ready"
    /\ UNCHANGED <<bootIdx, agents, calls, last, before>>

\* RegisterAgent without the call of _update_skill_keywords
RegisterAgentStaleIndex(endpoint, observed) ==
    /\ phase = "ready"
    /\ \E agent_card \in Served(endpoint) \cup {NoCard} :
          LET r == RegisterResult(agents, endpoint, agent_card)
              fresh == agent_card # NoCard /\ ~HasKey(agents, agent_card.name)
          IN  /\ fresh => Len(agents) < MaxAgents
              /\ agents' = r.agents
              /\ last' = IF observed
                         THEN [op |-> "register_agent", arg |-> endpoint,
                               card |-> agent_card, result |-> r.result,
                               replaced |-> IF agent_card # NoCard
                                               /\ HasKey(agents, agent_card.name)
                                            THEN Lookup(agents, agent_card.name)
                                            ELSE NoCard]
                         ELSE NoOp
              /\ before' = IF observed /\ fresh
                           THEN [valid |-> TRUE, card |-> agent_card,
                                 agents |-> agents, skill_keywords |-> skill_keywords]
                           ELSE NoBefore
    /\ UNCHANGED <<phase, bootIdx, calls, skill_keywords>>

\* RouteStart that goes on to the forwarder without the card when the key
\* is gone
RouteStartWithoutCard(c) ==
    /\ calls[c].pc = "route"
    /\ LET s == calls[c]
       IN  calls' = [calls EXCEPT ![c] =
               [pc |-> "forward", request |-> s.request,
                selected_agent |-> s.selected_agent,
                confidence |-> s.confidence,
                reasoning |-> s.reasoning,
                best_score |-> s.best_score,
                agent_card |-> IF HasKey(agents, s.selected_agent)
                               THEN Lookup(agents, s.selected_agent)
                               ELSE NoCard]]
    /\ UNCHANGED <<phase, bootIdx, agents, skill_keywords, last, before>>

\* RegisterAgent that rebuilds the index before it stores the card
RegisterAgentIndexFirst(endpoint, observed) ==
    /\ phase = "ready"
    /\ \E agent_card \in Served(endpoint) \cup {NoCard} :
          LET r == RegisterResult(agents, endpoint, agent_card)
              fresh == agent_card # NoCard /\ ~HasKey(agents, agent_card.name)
          IN  /\ fresh => Len(agents) < MaxAgents
              /\ agents' = r.agents
              /\ skill_keywords' = IF r.result.success
                                   THEN UpdateSkillKeywords(agents)
                                   ELSE skill_keywords
              /\ last' = NoOp
              /\ before' = NoBefore
    /\ UNCHANGED <<phase, bootIdx, calls>>

\* register_agent(endpoint), from the answer of the fetch on
RegisterAgent(endpoint, observed) ==
    /\ phase = "ready"
    /\ \E agent_card \in Served(endpoint) \cup {NoCard} :
          LET r == RegisterResult(agents, endpoint, agent_card)
              fresh == agent_card # NoCard /\ ~HasKey(agents, agent_card.name)
          IN  /\ fresh => Len(agents) < MaxAgents
              /\ agents' = r.agents
              /\ skill_keywords' = IF r.result.success
                                   THEN UpdateSkillKeywords(r.agents)
                                   ELSE skill_keywords
              /\ last' = IF observed
                         THEN [op |-> "register_agent", arg |-> endpoint,
                               card |-> agent_card, result |-> r.result,
                               replaced |-> IF agent_card # NoCard
                                               /\ HasKey(agents, agent_card.name)
                                            THEN Lookup(agents, agent_card.name)
                                            ELSE NoCard]
                         ELSE NoOp
              /\ before' = IF observed /\ fresh
                           THEN [valid |-> TRUE, card |-> agent_card,
                                 agents |-> agents, skill_keywords |-> skill_keywords]
                           ELSE NoBefore
    /\ UNCHANGED <<phase, bootIdx, calls>>

\* add_agent(agent_id, agent_card)
AddAgent(agent_id, agent_card, observed) ==
    /\ phase = "ready"
    /\ ~HasKey(agents, agent_id) => Len(agents) < MaxAgents
    /\ agents' = SetAgent(agents, agent_id, agent_card)
    /\ skill_keywords' = UpdateSkillKeywords(agents')
    /\ last' = IF observed
               THEN [op |-> "add_agent", arg |-> agent_id, card |-> agent_card]
               ELSE NoOp
    /\ before' = NoBefore
    /\ UNCHANGED <<phase, bootIdx, calls>>

\* UnregisterAgent without the call of _update_skill_keywords
UnregisterAgentStaleIndex(agent_identifier, observed) ==
    /\ phase = "ready"
    /\ LET r == UnregisterResult(agents, agent_identifier)
       IN  /\ agents' = r.agents
           /\ last' = IF observed
                      THEN [op |-> "unregister_agent", arg |-> agent_identifier,
                            result |-> r.result]
                      ELSE NoOp
    /\ before' = IF last.op = "register_agent" THEN before ELSE NoBefore
    /\ UNCHANGED <<phase, bootIdx, calls, skill_keywords>>

\* unregister_agent(agent_identifier)
UnregisterAgent(agent_identifier, observed) ==
    /\ phase = "ready"
    /\ LET r == UnregisterResult(agents, agent_identifier)
       IN  /\ agents' = r.agents
           /\ skill_keywords' = IF r.result.success
                                THEN UpdateSkillKeywords(r.agents)
                                ELSE skill_keywords
           /\ last' = IF observed
                      THEN [op |-> "unregister_agent", arg |-> agent_identifier,
                            result |-> r.result]
                      ELSE NoOp
    \* the snapshot stays for the unregistration that follows a registration
    /\ before' = IF last.op = "register_agent" THEN before ELSE NoBefore
    /\ UNCHANGED <<phase, bootIdx, calls>>

(***************************************************************************)
(* The call record holds the RouterState fields that the envelope is built *)
(* from, and best_score, the local of _analyze_request that the confidence *)
(* was computed from (the per-agent score tables of the metadata are       *)
(* computed by AnalyzeRequest and not carried along).                      *)
(* A call that has returned keeps its result and `stage`, the part of      *)
(* process_request that it ended in.                                       *)
(*                                                                         *)
(* process_request: the workflow runs _analyze_request, then               *)
(* _route_to_agent, and the envelope is built from the final state.  The   *)
(* event loop can run other operations between the two nodes, while the    *)
(* forwarder waits for the agent, and before the envelope is built.        *)
(***************************************************************************)
\* KeyError without the text of the exception
KeyErrorNoText(request, key) == [success |-> FALSE, request |-> request]

KeyError(request, key) ==
    [success |-> FALSE, request |-> request, error |-> <<"KeyError", key>>]

\* Analyze on one RouterState shared by all calls
AnalyzeSharedState(c, request) ==
    /\ phase = "ready"
    /\ calls[c].pc \in {"idle", "done"}
    /\ LET a == AnalyzeRequest(agents, skill_keywords, request)
       IN  calls' = [d \in DOMAIN calls |->
               IF a.raised
               THEN [pc |-> "done", request |-> request,
                     best_score |-> a.best_score,
                     stage |-> "analyze",
                     result |-> KeyError(request, a.key)]
               ELSE [pc |-> "route", request |-> request,
                     selected_agent |-> a.selected_agent,
                     confidence |-> a.confidence,
                     reasoning |-> a.reasoning,
                     best_score |-> a.best_score]]
    /\ UNCHANGED <<phase, bootIdx, agents, skill_keywords, last, before>>

\* Analyze with a scoring that drops the keywords of the index it has read
AnalyzeConsumesIndex(c, request) ==
    /\ phase = "ready"
    /\ calls[c].pc \in {"idle", "done"}
    /\ LET a == AnalyzeRequest(agents, skill_keywords, request)
       IN  calls' = [calls EXCEPT ![c] =
               IF a.raised
               THEN [pc |-> "done", request |-> request,
                     best_score |-> a.best_score,
                     stage |-> "analyze",
                     result |-> KeyError(request, a.key)]
               ELSE [pc |-> "route", request |-> request,
                     selected_agent |-> a.selected_agent,
                     confidence |-> a.confidence,
                     reasoning |-> a.reasoning,
                     best_score |-> a.best_score]]
    /\ skill_keywords' = [k \in DOMAIN skill_keywords |-> <<>>]
    /\ UNCHANGED <<phase, bootIdx, agents, last, before>>

\* process_request up to the end of the analyze node
Analyze(c, request) ==
    /\ phase = "ready"
    /\ calls[c].pc \in {"idle", "done"}
    /\ LET a == AnalyzeRequest(agents, skill_keywords, request)
       IN  calls' = [calls EXCEPT ![c] =
               IF a.raised
               THEN [pc |-> "done", request |-> request,
                     best_score |-> a.best_score,
                     stage |-> "analyze",
                     result |-> KeyError(request, a.key)]
               ELSE [pc |-> "route", request |-> request,
                     selected_agent |-> a.selected_agent,
                     confidence |-> a.confidence,
                     reasoning |-> a.reasoning,
                     best_score |-> a.best_score]]
    /\ UNCHANGED <<phase, bootIdx, agents, skill_keywords, last, before>>

\* _route_to_agent up to the call of the forwarder (lines 380-390)
RouteStart(c) ==
    /\ calls[c].pc = "route"
    /\ LET s == calls[c]
       IN  calls' = [calls EXCEPT ![c] =
               IF ~HasKey(agents, s.selected_agent)
               THEN [pc |-> "done", request |-> s.request,
                     best_score |-> s.best_score,
                     stage |-> "route",
                     result |-> KeyError(s.request, s.selected_agent)]
               ELSE [pc |-> "forward", request |-> s.request,
                     selected_agent |-> s.selected_agent,
                     confidence |-> s.confidence,
                     reasoning |-> s.reasoning,
                     best_score |-> s.best_score,
                     agent_card |-> Lookup(agents, s.selected_agent)]]
    /\ UNCHANGED <<phase, bootIdx, agents, skill_keywords, last, before>>

\* the rest of _route_to_agent, once the forwarder has returned or raised
\* (lines 390-406)
RouteResponse(s, outcome) ==
    IF ~outcome.raised
    THEN [status |-> "completed",
          response |-> [routed_to |-> s.agent_card.name, actual_response |-> outcome.text]]
    ELSE [status |-> "routing_only",
          response |-> [selected_agent |-> s.agent_card.name,
                        endpoint |-> s.agent_card.url,
                        confidence |-> s.confidence,
                        reasoning |-> s.reasoning,
                        could_not_forward |-> outcome.text]]

RouteFinish(c) ==
    /\ calls[c].pc = "forward"
    /\ \E outcome \in ForwardOutcomes :
          LET s == calls[c]
              r == RouteResponse(s, outcome)
          IN  calls' = [calls EXCEPT ![c] =
                  [pc |-> "envelope", request |-> s.request,
                   selected_agent |-> s.selected_agent,
                   confidence |-> s.confidence,
                   reasoning |-> s.reasoning,
                   best_score |-> s.best_score,
                   agent_endpoint |-> s.agent_card.url,
                   response |-> r.response,
                   status |-> r.status]]
    /\ UNCHANGED <<phase, bootIdx, agents, skill_keywords, last, before>>

(***************************************************************************)
(* _forward_request_to_agent in detail: message/send, then the poll loop   *)
(* of tasks/get.  A JSON object is a record with its keys, a JSON array a   *)
(* sequence; null and the string "string" are records with the one field   *)
(* `json`.  Where the code reads an object (the body, result, status,      *)
(* message, an artifact, a part) the value is an object, null or the       *)
(* string; where it goes through a list (artifacts, parts) the value is an *)
(* array, of any of these; the values of state, kind, type and text are    *)
(* strings.  A reply of the agent is its HTTP status code and the JSON     *)
(* body, status code 0 standing for a POST that raised (connection         *)
(* refused, read timeout).                                                 *)
(***************************************************************************)
\* range(30) of the poll loop
MaxPolls == 30

\* null, and the string "string"
JsonNull == [json |-> "null"]
JsonString == [json |-> "string"]

\* isinstance(v, dict)
IsDict(v) == "json" \notin DOMAIN v

\* the truth value python gives to a JSON value: None and {} are false
Truthy(v) == v # JsonNull /\ DOMAIN v # {}

NoReply == [status_code |-> 0]
Reply(status_code, body) == [status_code |-> status_code, body |-> body]

PartData == [kind |-> "data", type |-> "data"]
PartFirst == [kind |-> "text", text |-> "first text"]
PartSecond == [kind |-> "text", text |-> "second text"]
PartTextless == [kind |-> "text"]
PartTyped == [type |-> "text", text |-> "direct text"]
\* a clarifying text that reads like the message for a failed task
PartFailedWords == [kind |-> "text", text |-> "Agent task failed"]

\* values of the key "artifacts" of a task
ArtifactLists ==
    { <<>>,
      << [parts |-> <<PartData>>] >>,
      << [name |-> "empty"], [parts |-> <<PartData, PartFirst, PartSecond>>] >>,
      << [parts |-> <<PartData>>], [parts |-> <<PartSecond>>], [parts |-> <<PartFirst>>] >>,
      << [parts |-> <<PartTextless, PartFirst>>] >> }

TaskId == "task-1"

TaskStates == {"submitted", "working", "unknown", "completed", "failed", "input-required"}

\* the task objects an agent answers with
Tasks ==
    {[id |-> TaskId, status |-> [state |-> state]] :
        state \in TaskStates}
    \cup {[id |-> TaskId, status |-> [state |-> "completed"], artifacts |-> artifacts] :
            artifacts \in ArtifactLists}
    \cup {[id |-> TaskId,
           status |-> [state |-> "input-required",
                       message |-> [parts |-> parts]]] :
            parts \in {<<PartData, PartFirst>>, <<PartFailedWords>>}}

\* task objects that the protocol does not know: null or a string where an
\* object belongs
MalformedTasks ==
    { [id |-> TaskId, status |-> JsonNull],
      [id |-> TaskId, status |-> [state |-> "completed"],
       artifacts |-> << JsonString, [parts |-> <<PartFirst>>] >>],
      [id |-> TaskId, status |-> [state |-> "completed"],
       artifacts |-> << [parts |-> <<PartData, JsonNull, PartFirst>>] >>],
      [id |-> TaskId, status |-> [state |-> "completed"],
       artifacts |-> << [parts |-> <<PartFirst, JsonNull>>] >>],
      [id |-> TaskId, status |-> [state |-> "input-required", message |-> JsonString]],
      [id |-> TaskId, status |-> [state |-> "input-required", message |-> JsonNull]],
      [id |-> TaskId,
       status |-> [state |-> "input-required",
                   message |-> [parts |-> <<JsonString, PartFirst>>]]] }

\* the bodies that are no well-formed answer
BadBodies ==
    { JsonNull,
      [jsonrpc |-> "2.0", error |-> [code |-> "-32600"]],
      [jsonrpc |-> "2.0"],
      [jsonrpc |-> "2.0", result |-> JsonNull],
      [jsonrpc |-> "2.0", result |-> JsonString],
      [jsonrpc |-> "2.0", result |-> [foo |-> "bar"]] }

\* the replies to message/send
SendResponses ==
    {NoReply, Reply(302, [jsonrpc |-> "2.0"]), Reply(500, [jsonrpc |-> "2.0"])}
    \cup {Reply(200, body) : body \in BadBodies}
    \cup {Reply(200, [jsonrpc |-> "2.0",
                      result |-> [id |-> TaskId, status |-> [state |-> "submitted"]]])}
    \cup {Reply(200, [jsonrpc |-> "2.0", result |-> [parts |-> parts]]) :
            parts \in {<<>>, <<PartData, PartTyped>>, <<PartFirst>>,
                       <<JsonString, PartTyped>>, <<PartTyped, JsonNull>>}}

\* the replies to tasks/get
PollResponses ==
    {NoReply, Reply(302, [jsonrpc |-> "2.0"]), Reply(500, [jsonrpc |-> "2.0"])}
    \cup {Reply(200, body) : body \in BadBodies}
    \cup {Reply(200, [jsonrpc |-> "2.0", result |-> task]) :
            task \in Tasks \cup MalformedTasks}

\* part.get("text", default)
PartText(part, default) == IF "text" \in DOMAIN part THEN part.text ELSE default

Raise(text) == [next |-> "raise", text |-> text]
ReturnText(text) == [next |-> "return", text |-> text]

\* v.get(...) on a value that is no object: the AttributeError, which line
\* 534 raises again
NoGet(v) ==
    Raise(IF v = JsonNull
          THEN "Request forwarding failed: 'NoneType' object has no attribute 'get'"
          ELSE "Request forwarding failed: 'str' object has no attribute 'get'")

\* `"result" in body` on a body that is null: the TypeError, which line 534
\* raises again
NotIterable ==
    Raise("Request forwarding failed: argument of type 'NoneType' is not iterable")

\* the loop over the parts (lines 503-505, 515-517, 524-526) from position
\* i on: it returns the text of the first part whose key `key` says "text",
\* it raises at a part that is no object, or it goes through
RECURSIVE PartsOutcome(_, _, _, _)
PartsOutcome(parts, key, default, i) ==
    IF i > Len(parts) THEN [next |-> "through"]
    ELSE IF ~IsDict(parts[i]) THEN NoGet(parts[i])
    ELSE IF key \in DOMAIN parts[i] /\ parts[i][key] = "text"
    THEN ReturnText(PartText(parts[i], default))
    ELSE PartsOutcome(parts, key, default, i + 1)

\* ArtifactsText that looks at the first artifact only
RECURSIVE ArtifactsTextFirstOnly(_, _)
ArtifactsTextFirstOnly(artifacts, i) ==
    IF i > Len(artifacts) \/ i > 1
    THEN ReturnText("Task completed but no response text found")
    ELSE IF ~IsDict(artifacts[i]) THEN NoGet(artifacts[i])
    ELSE LET parts == IF "parts" \in DOMAIN artifacts[i] THEN artifacts[i].parts ELSE <<>>
             outcome == PartsOutcome(parts, "kind", "No text in response", 1)
         IN  IF outcome.next = "through"
             THEN ArtifactsTextFirstOnly(artifacts, i + 1)
             ELSE outcome

\* lines 499-507: the loops over the artifacts and their parts, from
\* artifact i on
RECURSIVE ArtifactsText(_, _)
ArtifactsText(artifacts, i) ==
    IF i > Len(artifacts)
    THEN ReturnText("Task completed but no response text found")
    ELSE IF ~IsDict(artifacts[i]) THEN NoGet(artifacts[i])
    ELSE LET parts == IF "parts" \in DOMAIN artifacts[i] THEN artifacts[i].parts ELSE <<>>
             outcome == PartsOutcome(parts, "kind", "No text in response", 1)
         IN  IF outcome.next = "through"
             THEN ArtifactsText(artifacts, i + 1)
             ELSE outcome

\* lines 512-518: the text of the status message of an input-required task;
\* status is an object
StatusMessageText(status) ==
    LET status_message == IF "message" \in DOMAIN status THEN status.message ELSE EmptyDict
    IN  IF ~Truthy(status_message)
        THEN ReturnText("Agent requires input but no message provided")
        ELSE IF ~IsDict(status_message) THEN NoGet(status_message)
        ELSE LET parts == IF "parts" \in DOMAIN status_message
                          THEN status_message.parts ELSE <<>>
                 outcome == PartsOutcome(parts, "kind",
                                         "No text in input-required response", 1)
             IN  IF outcome.next = "through"
                 THEN ReturnText("Agent requires input but no message provided")
                 ELSE outcome

\* what the forwarder does with the reply to message/send (lines 444-529)
SendOutcome(response) ==
    IF response.status_code = 0
    THEN Raise("Request forwarding failed: no reply")
    ELSE IF response.status_code \notin 200..299
    THEN Raise("HTTP error")
    ELSE LET result == response.body
         IN  IF result = JsonNull
             THEN NotIterable
             ELSE IF "error" \in DOMAIN result
             THEN Raise("Request forwarding failed: Agent returned error")
             ELSE IF "result" \notin DOMAIN result
             THEN Raise("Request forwarding failed: No result in agent response")
             ELSE LET message_result == result.result
                  IN  IF IsDict(message_result)
                         /\ "id" \in DOMAIN message_result
                         /\ "status" \in DOMAIN message_result
                      THEN [next |-> "poll", task_id |-> message_result.id]
                      ELSE IF IsDict(message_result) /\ "parts" \in DOMAIN message_result
                      THEN LET outcome == PartsOutcome(message_result.parts, "type",
                                                       "No text in message", 1)
                           IN  IF outcome.next = "through"
                               THEN ReturnText("Message received but no text content")
                               ELSE outcome
                      ELSE ReturnText("Unexpected response format from agent")

\* StateOutcome that gives up on every state it does not know
StateOutcomeKnownStatesOnly(task_state, task_data) ==
    IF task_state = "completed"
    THEN ArtifactsText(IF "artifacts" \in DOMAIN task_data
                       THEN task_data.artifacts ELSE <<>>, 1)
    ELSE IF task_state \in {"submitted", "working"}
    THEN [next |-> "continue"]
    ELSE IF task_state = "input-required"
    THEN StatusMessageText(task_data.status)
    ELSE ReturnText("Agent task failed")

\* StateOutcome that polls again when the task has failed
StateOutcomeRetriesFailed(task_state, task_data) ==
    IF task_state = "completed"
    THEN ArtifactsText(IF "artifacts" \in DOMAIN task_data
                       THEN task_data.artifacts ELSE <<>>, 1)
    ELSE IF task_state = "input-required"
    THEN StatusMessageText(task_data.status)
    ELSE [next |-> "continue"]

\* lines 497-518: what the state of the task leads to; any state but the
\* three named ones lets the loop go on
StateOutcome(task_state, task_data) ==
    IF task_state = "completed"
    THEN ArtifactsText(IF "artifacts" \in DOMAIN task_data
                       THEN task_data.artifacts ELSE <<>>, 1)
    ELSE IF task_state = "failed"
    THEN ReturnText("Agent task failed")
    ELSE IF task_state = "input-required"
    THEN StatusMessageText(task_data.status)
    ELSE [next |-> "continue"]

\* what one turn of the poll loop does with the reply to tasks/get (lines
\* 482-518): a body without a result that counts as true, whatever else it
\* holds, lets the loop go on; a result or a status that is no object makes
\* .get raise
PollOutcome(response) ==
    IF response.status_code = 0
    THEN Raise("Request forwarding failed: no reply")
    ELSE IF response.status_code \notin 200..299
    THEN Raise("HTTP error")
    ELSE LET get_result == response.body
         IN  IF get_result = JsonNull
             THEN NotIterable
             ELSE IF "result" \in DOMAIN get_result /\ Truthy(get_result.result)
             THEN LET task_data == get_result.result
                  IN  IF ~IsDict(task_data)
                      THEN NoGet(task_data)
                      ELSE LET status == IF "status" \in DOMAIN task_data
                                         THEN task_data.status ELSE EmptyDict
                           IN  IF ~IsDict(status)
                               THEN NoGet(status)
                               ELSE StateOutcome(IF "state" \in DOMAIN status
                                                 THEN status.state ELSE "None",
                                                 task_data)
             ELSE [next |-> "continue"]

\* Forwarded with the confidence set back to its initial value
ForwardedResetsConfidence(s, outcome, attempt, traffic, sent, polled) ==
    LET r == RouteResponse(s, [raised |-> outcome.next = "raise", text |-> outcome.text])
    IN  [pc |-> "envelope", request |-> s.request,
         selected_agent |-> s.selected_agent,
         confidence |-> 0,
         reasoning |-> s.reasoning,
         best_score |-> s.best_score,
         agent_endpoint |-> s.agent_card.url,
         response |-> r.response,
         status |-> r.status,
         attempt |-> attempt,
         traffic |-> traffic,
         sent |-> sent,
         polled |-> polled]

\* the call once the forwarder has returned or raised: the state that
\* _route_to_agent returns, with the requests the forwarder has sent, the
\* reply to message/send and the reply to the last tasks/get
Forwarded(s, outcome, attempt, traffic, sent, polled) ==
    LET r == RouteResponse(s, [raised |-> outcome.next = "raise", text |-> outcome.text])
    IN  [pc |-> "envelope", request |-> s.request,
         selected_agent |-> s.selected_agent,
         confidence |-> s.confidence,
         reasoning |-> s.reasoning,
         best_score |-> s.best_score,
         agent_endpoint |-> s.agent_card.url,
         response |-> r.response,
         status |-> r.status,
         attempt |-> attempt,
         traffic |-> traffic,
         sent |-> sent,
         polled |-> polled]

\* the forwarder up to the reply to message/send
ForwardSend(c) ==
    /\ calls[c].pc = "forward"
    /\ \E response \in SendResponses :
          LET s == calls[c]
              outcome == SendOutcome(response)
              traffic == [sends |-> 1, polls |-> 0, sleeps |-> 0]
          IN  calls' = [calls EXCEPT ![c] =
                  IF outcome.next = "poll"
                  THEN [pc |-> "loop", request |-> s.request,
                        selected_agent |-> s.selected_agent,
                        confidence |-> s.confidence,
                        reasoning |-> s.reasoning,
                        best_score |-> s.best_score,
                        agent_card |-> s.agent_card,
                        endpoint |-> s.agent_card.url,
                        task_id |-> outcome.task_id,
                        attempt |-> 0,
                        traffic |-> traffic,
                        sent |-> response,
                        polled |-> NoReply]
                  ELSE Forwarded(s, outcome, 0, traffic, response, NoReply)]
    /\ UNCHANGED <<phase, bootIdx, agents, skill_keywords, last, before>>

\* ForwardSleep with range(31)
ForwardSleepOnceMore(c) ==
    /\ calls[c].pc = "loop"
    /\ calls[c].attempt <= MaxPolls
    /\ calls' = [calls EXCEPT ![c].pc = "poll",
                              ![c].traffic.sleeps = @ + 1]
    /\ UNCHANGED <<phase, bootIdx, agents, skill_keywords, last, before>>

\* the head of the loop and `await asyncio.sleep(1)` (lines 470-471)
ForwardSleep(c) ==
    /\ calls[c].pc = "loop"
    /\ calls[c].attempt < MaxPolls
    /\ calls' = [calls EXCEPT ![c].pc = "poll",
                              ![c].traffic.sleeps = @ + 1]
    /\ UNCHANGED <<phase, bootIdx, agents, skill_keywords, last, before>>

\* the POST of tasks/get and what follows from its reply (lines 473-518)
ForwardPoll(c) ==
    /\ calls[c].pc = "poll"
    /\ \E response \in PollResponses :
          LET s == calls[c]
              outcome == PollOutcome(response)
              traffic == [s.traffic EXCEPT !.polls = @ + 1]
          IN  calls' = [calls EXCEPT ![c] =
                  IF outcome.next = "continue"
                  THEN [s EXCEPT !.pc = "loop", !.attempt = @ + 1,
                                 !.traffic = traffic, !.polled = response]
                  ELSE Forwarded(s, outcome, s.attempt, traffic, s.sent, response)]
    /\ UNCHANGED <<phase, bootIdx, agents, skill_keywords, last, before>>

\* the loop has run out (line 520)
ForwardTimeout(c) ==
    /\ calls[c].pc = "loop"
    /\ calls[c].attempt >= MaxPolls
    /\ LET s == calls[c]
       IN  calls' = [calls EXCEPT ![c] =
               Forwarded(s, ReturnText("Task did not complete within timeout"),
                         s.attempt, s.traffic, s.sent, s.polled)]
    /\ UNCHANGED <<phase, bootIdx, agents, skill_keywords, last, before>>


\* Envelope that reports a forwarding error as a failure of the call
EnvelopeFailsUnforwarded(ags, s) ==
    IF ~HasKey(ags, s.selected_agent)
    THEN KeyError(s.request, s.selected_agent)
    ELSE IF s.status = "routing_only"
    THEN [success |-> FALSE, request |-> s.request,
          error |-> <<"could not forward">>]
    ELSE LET agent_card == Lookup(ags, s.selected_agent)
         IN  [success |-> TRUE,
              request |-> s.request,
              selected_agent_id |-> s.selected_agent,
              selected_agent_name |-> agent_card.name,
              agent_skills |-> [j \in 1..Len(agent_card.skills) |-> agent_card.skills[j].name],
              confidence |-> s.confidence,
              reasoning |-> s.reasoning,
              response |-> s.response,
              metadata |-> [agent_endpoint |-> s.agent_endpoint,
                            status |-> s.status]]

\* process_request after the workflow (lines 551-574)
Envelope(ags, s) ==
    IF ~HasKey(ags, s.selected_agent)
    THEN KeyError(s.request, s.selected_agent)
    ELSE LET agent_card == Lookup(ags, s.selected_agent)
         IN  [success |-> TRUE,
              request |-> s.request,
              selected_agent_id |-> s.selected_agent,
              selected_agent_name |-> agent_card.name,
              agent_skills |-> [j \in 1..Len(agent_card.skills) |-> agent_card.skills[j].name],
              confidence |-> s.confidence,
              reasoning |-> s.reasoning,
              response |-> s.response,
              metadata |-> [agent_endpoint |-> s.agent_endpoint,
                            status |-> s.status]]

Return(c) ==
    /\ calls[c].pc = "envelope"
    /\ calls' = [calls EXCEPT ![c] =
           [pc |-> "done", request |-> calls[c].request,
            best_score |-> calls[c].best_score,
            stage |-> "envelope",
            result |-> Envelope(agents, calls[c])]]
    /\ UNCHANGED <<phase, bootIdx, agents, skill_keywords, last, before>>

\* The registry operations alone, each leaving its result in `last`.
NextRegistry ==
    \/ BootFetch
    \/ BootFinish
    \/ \E endpoint \in Endpoints : RegisterAgent(endpoint, TRUE)
    \/ \E input \in AddInputs : AddAgent(input.agent_id, input.card, TRUE)
    \/ \E agent_identifier \in Identifiers : UnregisterAgent(agent_identifier, TRUE)

SpecRegistry == Init /\ [][NextRegistry]_vars

\* The registry operations interleaved with process_request calls.
Next ==
    \/ BootFetch
    \/ BootFinish
    \/ \E endpoint \in Endpoints : RegisterAgent(endpoint, FALSE)
    \/ \E input \in AddInputs : AddAgent(input.agent_id, input.card, FALSE)
    \/ \E agent_identifier \in KeyIdentifiers : UnregisterAgent(agent_identifier, FALSE)
    \/ \E c \in Calls, request \in Requests : Analyze(c, request)
    \/ \E c \in Calls : RouteStart(c)
    \/ \E c \in Calls : RouteFinish(c)
    \/ \E c \in Calls : Return(c)

Spec == Init /\ [][Next]_vars

\* process_request calls on the registry that __init__ has loaded, with the
\* forwarder in detail.
NextForward ==
    \/ BootFetch
    \/ BootFinish
    \/ \E c \in Calls, request \in Requests : Analyze(c, request)
    \/ \E c \in Calls : RouteStart(c)
    \/ \E c \in Calls : ForwardSend(c)
    \/ \E c \in Calls : ForwardSleep(c)
    \/ \E c \in Calls : ForwardPoll(c)
    \/ \E c \in Calls : ForwardTimeout(c)
    \/ \E c \in Calls : Return(c)

SpecForward == Init /\ [][NextForward]_vars

\* process_request calls with the forwarder in detail, while agents are
\* unregistered.
NextForwardUnregister ==
    \/ BootFetch
    \/ BootFinish
    \/ \E c \in Calls, request \in Requests : Analyze(c, request)
    \/ \E c \in Calls : RouteStart(c)
    \/ \E c \in Calls : ForwardSend(c)
    \/ \E c \in Calls : ForwardSleep(c)
    \/ \E c \in Calls : ForwardPoll(c)
    \/ \E c \in Calls : ForwardTimeout(c)
    \/ \E c \in Calls : Return(c)
    \/ \E agent_identifier \in KeyIdentifiers : UnregisterAgent(agent_identifier, FALSE)

SpecForwardUnregister == Init /\ [][NextForwardUnregister]_vars

(***************************************************************************)
(* OrchestratorAgentExecutor.execute: the query is a command on the        *)
(* registry or a request.  execute is a coroutine of the one executor, so  *)
(* while one execute waits for the network (the card fetch of              *)
(* register_agent, the agent of process_request) another execute runs.     *)
(* `last` holds the executes that wait, one for each call, and the execute *)
(* that ended last: the query, the method of the orchestrator that execute *)
(* called, the argument it passed, whether the request came with a task,   *)
(* and the events put on the queue of the task.                            *)
(***************************************************************************)
ListCommand == <<"L", "I", "S", "T", "_", "A", "G", "E", "N", "T", "S">>

RegisterPrefix == <<"R", "E", "G", "I", "S", "T", "E", "R", "_", "A", "G", "E", "N", "T", ":">>

UnregisterPrefix == <<"U", "N", "R", "E", "G", "I", "S", "T", "E", "R", "_", "A", "G", "E", "N", "T", ":">>

RECURSIVE LStrip(_)
LStrip(s) == IF s # <<>> /\ Head(s) = " " THEN LStrip(Tail(s)) ELSE s

RECURSIVE RStrip(_)
RStrip(s) == IF s # <<>> /\ s[Len(s)] = " " THEN RStrip(SubSeq(s, 1, Len(s) - 1)) ELSE s

\* str.strip()
Strip(s) == RStrip(LStrip(s))

\* str.startswith(prefix)
StartsWith(s, prefix) == Len(prefix) <= Len(s) /\ SubSeq(s, 1, Len(prefix)) = prefix

\* str.replace(old, ""): every occurrence of old is removed, from the left
RECURSIVE Remove(_, _)
Remove(s, old) ==
    IF s = <<>> THEN <<>>
    ELSE IF StartsWith(s, old)
         THEN Remove(SubSeq(s, Len(old) + 1, Len(s)), old)
         ELSE <<Head(s)>> \o Remove(Tail(s), old)

\* the queries sent to the executor
Queries ==
    { <<" ">> \o ListCommand \o <<" ">>,
      Lower(ListCommand),
      RegisterPrefix \o <<" ">> \o Url4,
      <<" ">> \o RegisterPrefix \o Url1,
      UnregisterPrefix \o NameMath,
      UnregisterPrefix \o UnregisterPrefix \o NameMath,
      <<"a", "d", "d">> }

\* the queries of requests that continue a task
TaskQueries ==
    { <<" ">> \o ListCommand \o <<" ">>,
      <<"a", "d", "d">> }

\* the requests: the query, whether context.current_task is set and whether
\* context.message is
Contexts ==
    {[query |-> query, has_task |-> FALSE, has_message |-> TRUE] : query \in Queries}
    \cup {[query |-> query, has_task |-> TRUE, has_message |-> has_message] :
              query \in TaskQueries, has_message \in BOOLEAN}
    \cup {[query |-> <<" ">> \o ListCommand \o <<" ">>,
            has_task |-> FALSE, has_message |-> FALSE]}

\* the branch of execute that a query takes
ExecuteBranch(query) ==
    IF Strip(query) = ListCommand
    THEN [called |-> "get_available_agents"]
    ELSE IF StartsWith(query, RegisterPrefix)
    THEN [called |-> "register_agent", arg |-> Strip(Remove(query, RegisterPrefix))]
    ELSE IF StartsWith(query, UnregisterPrefix)
    THEN [called |-> "unregister_agent", arg |-> Strip(Remove(query, UnregisterPrefix))]
    ELSE [called |-> "process_request", arg |-> query]

\* get_available_agents()
GetAvailableAgents(ags) ==
    [i \in 1..Len(ags) |->
        [agent_id |-> ags[i].id,
         name |-> ags[i].card.name,
         endpoint |-> ags[i].card.url,
         skills |-> [j \in 1..Len(ags[i].card.skills) |->
                        [name |-> ags[i].card.skills[j].name,
                         description |-> ags[i].card.skills[j].description]]]]

\* the events that execute puts on the event queue of the task
TaskEvent == [event |-> "task"]

WorkingEvent == [event |-> "status", state |-> "working"]

ArtifactEvent(text) == [event |-> "artifact", name |-> "orchestrator_result", text |-> text]

CompletedEvent == [event |-> "status", state |-> "completed"]

\* `if not task:` (lines 57-62): a request that brings neither a task nor a
\* message is turned down
InvalidParams(context) == ~context.has_task /\ ~context.has_message

\* new_task and enqueue_event for a request that has no task yet and brings
\* a message; nothing is put on the queue for any other request
TaskCreated(context) ==
    IF ~context.has_task /\ context.has_message THEN <<TaskEvent>> ELSE <<>>

\* response_text: the mark and what follows it
ResponseText(called, result) ==
    IF called = "get_available_agents"
    THEN [ok |-> TRUE, says |-> result]
    ELSE IF result.success
    THEN [ok |-> TRUE,
          says |-> IF called = "process_request" THEN result.response ELSE result.message]
    ELSE [ok |-> FALSE, says |-> result.error]

\* update_status(TaskState.working, ...)
Working(events) == events \o <<WorkingEvent>>

\* Complete that completes the task of a failed operation without artifact
CompleteFailureBare(events, text) ==
    IF text.ok
    THEN events \o <<ArtifactEvent(text), CompletedEvent>>
    ELSE events \o <<CompletedEvent>>

\* add_artifact and complete
Complete(events, text) ==
    events \o <<ArtifactEvent(text), CompletedEvent>>

NoExecute == [called |-> "none"]

\* the executes that wait, and the execute that ended since the last one
\* started to wait or wrote the registry while waiting
ExecuteLog(running, finished) ==
    [op |-> "execute", running |-> running, finished |-> finished]

Running(l) ==
    IF l.op = "execute" THEN l.running ELSE [c \in ConcurrentCalls |-> NoExecute]

Finished(l) == IF l.op = "execute" THEN l.finished ELSE NoExecute

\* an execute that is going to wait takes the first call that is free
FreeCall(c) ==
    /\ Running(last)[c] = NoExecute
    /\ c = "c1" \/ Running(last)["c1"] # NoExecute

\* execute, LIST_AGENTS branch
ExecuteListAgents(context) ==
    /\ phase = "ready"
    /\ ~InvalidParams(context)
    /\ ExecuteBranch(context.query).called = "get_available_agents"
    /\ LET listed == GetAvailableAgents(agents)
           response == [type |-> "agent_list", agents |-> listed,
                        total_count |-> Len(listed)]
       IN  last' = ExecuteLog(Running(last),
                      [query |-> context.query,
                       called |-> "get_available_agents",
                       response |-> response,
                       has_task |-> context.has_task,
                       events |-> Complete(Working(TaskCreated(context)),
                                           ResponseText("get_available_agents", response))])
    /\ before' = NoBefore
    /\ UNCHANGED <<phase, bootIdx, agents, skill_keywords, calls>>

\* execute, REGISTER_AGENT: branch up to the card fetch of register_agent
ExecuteRegisterAgent(c, context) ==
    /\ phase = "ready"
    /\ ~InvalidParams(context)
    /\ FreeCall(c)
    /\ ExecuteBranch(context.query).called = "register_agent"
    /\ last' = ExecuteLog([Running(last) EXCEPT ![c] =
                              [query |-> context.query,
                               called |-> "register_agent",
                               arg |-> ExecuteBranch(context.query).arg,
                               has_task |-> context.has_task,
                               events |-> Working(TaskCreated(context))]],
                          NoExecute)
    /\ before' = NoBefore
    /\ UNCHANGED <<phase, bootIdx, agents, skill_keywords, calls>>

\* execute, REGISTER_AGENT: branch, register_agent from the answer to the
\* card fetch to the exit of `async with httpx.AsyncClient`, which waits for
\* the connection to close (lines 123-143): the registry is written and
\* execute still waits for the result
ExecuteRegistered(c) ==
    /\ Running(last)[c].called = "register_agent"
    /\ "result" \notin DOMAIN Running(last)[c]
    /\ LET x == Running(last)[c]
       IN  \E agent_card \in Served(x.arg) \cup {NoCard} :
              LET r == RegisterResult(agents, x.arg, agent_card)
              IN  /\ (agent_card # NoCard /\ ~HasKey(agents, agent_card.name))
                        => Len(agents) < MaxAgents
                  /\ agents' = r.agents
                  /\ skill_keywords' = IF r.result.success
                                       THEN UpdateSkillKeywords(r.agents)
                                       ELSE skill_keywords
                  /\ last' = ExecuteLog([Running(last) EXCEPT ![c] =
                                            [query |-> x.query,
                                             called |-> "register_agent",
                                             arg |-> x.arg,
                                             result |-> r.result,
                                             has_task |-> x.has_task,
                                             events |-> x.events]],
                                        NoExecute)
    /\ UNCHANGED <<phase, bootIdx, calls, before>>

\* execute, REGISTER_AGENT: branch, once register_agent has returned (lines
\* 107-148 and 219-223)
ExecuteRegisterReturned(c) ==
    /\ Running(last)[c].called = "register_agent"
    /\ "result" \in DOMAIN Running(last)[c]
    /\ LET x == Running(last)[c]
       IN  last' = ExecuteLog([Running(last) EXCEPT ![c] = NoExecute],
                      [x EXCEPT !.events =
                          Complete(x.events, ResponseText("register_agent", x.result))])
    /\ UNCHANGED <<phase, bootIdx, agents, skill_keywords, calls, before>>

\* execute, UNREGISTER_AGENT: branch
ExecuteUnregisterAgent(context) ==
    /\ phase = "ready"
    /\ ~InvalidParams(context)
    /\ ExecuteBranch(context.query).called = "unregister_agent"
    /\ LET agent_identifier == ExecuteBranch(context.query).arg
           r == UnregisterResult(agents, agent_identifier)
       IN  /\ agents' = r.agents
           /\ skill_keywords' = IF r.result.success
                                THEN UpdateSkillKeywords(r.agents)
                                ELSE skill_keywords
           /\ last' = ExecuteLog(Running(last),
                          [query |-> context.query,
                           called |-> "unregister_agent", arg |-> agent_identifier,
                           result |-> r.result,
                           has_task |-> context.has_task,
                           events |-> Complete(Working(TaskCreated(context)),
                                               ResponseText("unregister_agent", r.result))])
    /\ before' = NoBefore
    /\ UNCHANGED <<phase, bootIdx, calls>>

\* execute, last branch: process_request(query) up to the end of analyze
ExecuteProcessRequest(c, context) ==
    /\ phase = "ready"
    /\ ~InvalidParams(context)
    /\ FreeCall(c)
    /\ ExecuteBranch(context.query).called = "process_request"
    /\ LET request == ExecuteBranch(context.query).arg
           a == AnalyzeRequest(agents, skill_keywords, request)
       IN  /\ calls' = [calls EXCEPT ![c] =
                   IF a.raised
                   THEN [pc |-> "done", request |-> request,
                         best_score |-> a.best_score,
                         stage |-> "analyze",
                         result |-> KeyError(request, a.key)]
                   ELSE [pc |-> "route", request |-> request,
                         selected_agent |-> a.selected_agent,
                         confidence |-> a.confidence,
                         reasoning |-> a.reasoning,
                         best_score |-> a.best_score]]
           /\ last' = ExecuteLog([Running(last) EXCEPT ![c] =
                                     [query |-> context.query,
                                      called |-> "process_request",
                                      arg |-> request,
                                      has_task |-> context.has_task,
                                      events |-> TaskCreated(context)]],
                                 NoExecute)
    /\ before' = NoBefore
    /\ UNCHANGED <<phase, bootIdx, agents, skill_keywords>>

\* execute, last branch, once process_request has returned
ExecuteProcessed(c) ==
    /\ Running(last)[c].called = "process_request"
    /\ calls[c].pc = "done"
    /\ LET x == Running(last)[c]
       IN  last' = ExecuteLog([Running(last) EXCEPT ![c] = NoExecute],
                      [query |-> x.query,
                       called |-> "process_request", arg |-> x.arg,
                       result |-> calls[c].result,
                       has_task |-> x.has_task,
                       events |-> Complete(Working(x.events),
                                     ResponseText("process_request", calls[c].result))])
    /\ calls' = [calls EXCEPT ![c] = IdleCall]
    /\ UNCHANGED <<phase, bootIdx, agents, skill_keywords, before>>

\* execute of a request that brings neither a task nor a message: it raises
\* ServerError(InvalidParamsError) before anything is put on the queue and
\* before any branch is taken (line 62)
ExecuteInvalidParams(context) ==
    /\ phase = "ready"
    /\ InvalidParams(context)
    /\ last' = ExecuteLog(Running(last),
                   [query |-> context.query,
                    called |-> "nothing",
                    raised |-> "InvalidParamsError",
                    has_task |-> context.has_task,
                    events |-> <<>>])
    /\ before' = NoBefore
    /\ UNCHANGED <<phase, bootIdx, agents, skill_keywords, calls>>

\* the executor holds one SmartOrchestrator; no execute has started
InitExecutor ==
    /\ phase = "boot"
    /\ bootIdx = 1
    /\ agents = <<>>
    /\ skill_keywords = EmptyDict
    /\ calls = [c \in ConcurrentCalls |-> IdleCall]
    /\ last = NoFetches
    /\ before = NoBefore

\* The requests of the executor: an execute starts at any time, also while
\* others wait.
NextExecutor ==
    \/ BootFetch
    \/ BootFinish
    \/ \E context \in Contexts : ExecuteInvalidParams(context)
    \/ \E context \in Contexts : ExecuteListAgents(context)
    \/ \E c \in ConcurrentCalls, context \in Contexts : ExecuteRegisterAgent(c, context)
    \/ \E c \in ConcurrentCalls : ExecuteRegistered(c)
    \/ \E c \in ConcurrentCalls : ExecuteRegisterReturned(c)
    \/ \E context \in Contexts : ExecuteUnregisterAgent(context)
    \/ \E c \in ConcurrentCalls, context \in Contexts : ExecuteProcessRequest(c, context)
    \/ \E c \in ConcurrentCalls : RouteStart(c)
    \/ \E c \in ConcurrentCalls : RouteFinish(c)
    \/ \E c \in ConcurrentCalls : Return(c)
    \/ \E c \in ConcurrentCalls : ExecuteProcessed(c)

SpecExecutor == InitExecutor /\ [][NextExecutor]_vars

(***************************************************************************)
(* Two process_request calls at a time on the registry that __init__ has   *)
(* loaded: the event loop runs a step of either call at each await.        *)
(***************************************************************************)
InitConcurrent ==
    /\ phase = "boot"
    /\ bootIdx = 1
    /\ agents = <<>>
    /\ skill_keywords = EmptyDict
    /\ calls = [c \in ConcurrentCalls |-> IdleCall]
    /\ last = NoFetches
    /\ before = NoBefore

NextConcurrent ==
    \/ BootFetch
    \/ BootFinish
    \/ \E c \in ConcurrentCalls, request \in Requests : Analyze(c, request)
    \/ \E c \in ConcurrentCalls : RouteStart(c)
    \/ \E c \in ConcurrentCalls : RouteFinish(c)
    \/ \E c \in ConcurrentCalls : Return(c)

SpecConcurrent == InitConcurrent /\ [][NextConcurrent]_vars

(***************************************************************************)
(* The client, send_orchestrator_command: the command is sent to the       *)
(* orchestrator with the A2A client; a Task that comes back is polled      *)
(* with get_task.  The call record holds the arguments, the poll budget,   *)
(* the polls and sleeps so far, the last reply and, at the end, the dict   *)
(* that is returned.  timeout_seconds is an int, in seconds; poll_interval  *)
(* is a float, held in eighths of a second: a float holds these values     *)
(* exactly, and the quotient of line 197, rounded to a float, has the      *)
(* whole part of the exact quotient.                                       *)
(***************************************************************************)
\* timeout_seconds of the callers, in seconds
TimeoutSeconds == {1, 2}

\* poll_interval of the callers, in eighths of a second: 0, 0.5, 0.75 and 1.0
PollIntervals == {0, 4, 6, 8}

TextRoot(text) == [root |-> "TextPart", text |-> text]
DataRoot == [root |-> "DataPart"]

\* task.artifacts; None counts as the empty list
ClientArtifactLists ==
    { <<>>,
      << [parts |-> <<DataRoot>>] >>,
      << [parts |-> <<DataRoot, TextRoot("first text"), TextRoot("second text")>>] >>,
      << [parts |-> <<TextRoot("first text")>>], [parts |-> <<DataRoot>>] >>,
      << [parts |-> <<TextRoot("first text")>>], [parts |-> <<TextRoot("second text")>>] >> }

ClientTaskStates == {"submitted", "working", "input-required", "canceled", "completed", "failed"}

\* what client.send_message gives: an exception (of the card fetch, too),
\* an error response, a Task or a Message
ClientSendReplies ==
    { [is |-> "raised"], [is |-> "error"], [is |-> "Task", id |-> TaskId] }
    \cup { [is |-> "Message", parts |-> parts] :
             parts \in { <<>>, <<DataRoot, TextRoot("first text")>>,
                         <<TextRoot("second text"), TextRoot("first text")>> } }

\* what client.get_task gives
ClientPollReplies ==
    { [is |-> "raised"], [is |-> "error"] }
    \cup { [is |-> "Task", state |-> state, artifacts |-> <<>>] :
             state \in ClientTaskStates \ {"completed"} }
    \cup { [is |-> "Task", state |-> "completed", artifacts |-> artifacts] :
             artifacts \in ClientArtifactLists }

\* the first TextPart of the parts, from position i on; 0 when there is none
RECURSIVE FirstTextRoot(_, _)
FirstTextRoot(parts, i) ==
    IF i > Len(parts) THEN 0
    ELSE IF parts[i].root = "TextPart" THEN i
    ELSE FirstTextRoot(parts, i + 1)

\* the loops over the artifacts and their parts: the break leaves the loop
\* over the parts only
RECURSIVE ClientArtifactsText(_, _, _)
ClientArtifactsText(artifacts, i, response_text) ==
    IF i > Len(artifacts) THEN response_text
    ELSE LET found == FirstTextRoot(artifacts[i].parts, 1)
         IN  ClientArtifactsText(artifacts, i + 1,
                                 IF found # 0 THEN artifacts[i].parts[found].text
                                 ELSE response_text)

\* the text of a Message: that of its first TextPart
ClientMessageText(parts) ==
    LET found == FirstTextRoot(parts, 1)
    IN  IF found # 0 THEN parts[found].text ELSE ""

\* int(timeout_seconds / poll_interval), for whole seconds and a
\* poll_interval other than 0 in eighths of a second; int() cuts the
\* quotient towards zero
MaxPollsOf(timeout_seconds, poll_interval) ==
    LET eighths == 8 * timeout_seconds
        whole == (IF eighths < 0 THEN -eighths ELSE eighths)
                     \div (IF poll_interval < 0 THEN -poll_interval ELSE poll_interval)
    IN  IF (eighths < 0) = (poll_interval < 0) THEN whole ELSE -whole

\* ClientPollOutcome that goes on polling a task that failed
ClientPollOutcomeWaitsOnFailed(reply, task_id) ==
    IF reply.is = "raised"
    THEN [next |-> "return", result |-> [success |-> FALSE, error |-> "exception"]]
    ELSE IF reply.is = "Task" /\ reply.state = "completed"
    THEN [next |-> "return",
          result |-> [success |-> TRUE,
                      data |-> ClientArtifactsText(reply.artifacts, 1, ""),
                      task_id |-> task_id]]
    ELSE [next |-> "continue"]

\* one turn of the poll loop, from the reply of get_task on
ClientPollOutcome(reply, task_id) ==
    IF reply.is = "raised"
    THEN [next |-> "return", result |-> [success |-> FALSE, error |-> "exception"]]
    ELSE IF reply.is = "Task" /\ reply.state = "completed"
    THEN [next |-> "return",
          result |-> [success |-> TRUE,
                      data |-> ClientArtifactsText(reply.artifacts, 1, ""),
                      task_id |-> task_id]]
    ELSE IF reply.is = "Task" /\ reply.state = "failed"
    THEN [next |-> "return",
          result |-> [success |-> FALSE, error |-> "Task failed", task_id |-> task_id]]
    ELSE [next |-> "continue"]

NoPoll == [is |-> "none"]

CommandDone(s, polls, sleeps, polled, result) ==
    [pc |-> "done", timeout_seconds |-> s.timeout_seconds,
     poll_interval |-> s.poll_interval, sent |-> s.sent,
     polls |-> polls, sleeps |-> sleeps, polled |-> polled, result |-> result]

\* send_orchestrator_command up to the reply to the command
CommandSend(c, timeout_seconds, poll_interval) ==
    /\ phase = "client"
    /\ calls[c].pc \in {"idle", "done"}
    /\ \E reply \in ClientSendReplies :
          LET s == [timeout_seconds |-> timeout_seconds,
                    poll_interval |-> poll_interval, sent |-> reply]
          IN  calls' = [calls EXCEPT ![c] =
                  IF reply.is = "raised"
                  THEN CommandDone(s, 0, 0, NoPoll,
                                   [success |-> FALSE, error |-> "exception"])
                  ELSE IF reply.is = "error"
                  THEN CommandDone(s, 0, 0, NoPoll,
                                   [success |-> FALSE, error |-> "No result in response"])
                  ELSE IF reply.is = "Message"
                  THEN CommandDone(s, 0, 0, NoPoll,
                                   [success |-> TRUE, data |-> ClientMessageText(reply.parts)])
                  ELSE IF poll_interval = 0
                  THEN CommandDone(s, 0, 0, NoPoll,
                                   [success |-> FALSE, error |-> "exception"])
                  ELSE [pc |-> "loop", timeout_seconds |-> timeout_seconds,
                        poll_interval |-> poll_interval, sent |-> reply,
                        task_id |-> reply.id,
                        max_polls |-> MaxPollsOf(timeout_seconds, poll_interval),
                        polls |-> 0, sleeps |-> 0, polled |-> NoPoll]]
    /\ UNCHANGED <<phase, bootIdx, agents, skill_keywords, last, before>>

\* the head of the loop and `await asyncio.sleep(poll_interval)`
CommandSleep(c) ==
    /\ calls[c].pc = "loop"
    /\ calls[c].polls < calls[c].max_polls
    /\ calls' = [calls EXCEPT ![c].pc = "poll", ![c].sleeps = @ + 1]
    /\ UNCHANGED <<phase, bootIdx, agents, skill_keywords, last, before>>

\* get_task and what follows from its reply
CommandPoll(c) ==
    /\ calls[c].pc = "poll"
    /\ \E reply \in ClientPollReplies :
          LET s == calls[c]
              outcome == ClientPollOutcome(reply, s.task_id)
          IN  calls' = [calls EXCEPT ![c] =
                  IF outcome.next = "continue"
                  THEN [s EXCEPT !.pc = "loop", !.polls = @ + 1, !.polled = reply]
                  ELSE CommandDone(s, s.polls + 1, s.sleeps, reply, outcome.result)]
    /\ UNCHANGED <<phase, bootIdx, agents, skill_keywords, last, before>>

\* the loop has run out
CommandTimeout(c) ==
    /\ calls[c].pc = "loop"
    /\ calls[c].polls >= calls[c].max_polls
    /\ LET s == calls[c]
       IN  calls' = [calls EXCEPT ![c] =
               CommandDone(s, s.polls, s.sleeps, s.polled,
                           [success |-> FALSE, error |-> "Task timed out",
                            task_id |-> s.task_id])]
    /\ UNCHANGED <<phase, bootIdx, agents, skill_keywords, last, before>>

InitClient ==
    /\ phase = "client"
    /\ bootIdx = 1
    /\ agents = <<>>
    /\ skill_keywords = EmptyDict
    /\ calls = [c \in Calls |-> IdleCall]
    /\ last = NoOp
    /\ before = NoBefore

NextClient ==
    \/ \E c \in Calls, timeout_seconds \in TimeoutSeconds, poll_interval \in PollIntervals :
          CommandSend(c, timeout_seconds, poll_interval)
    \/ \E c \in Calls : CommandSleep(c)
    \/ \E c \in Calls : CommandPoll(c)
    \/ \E c \in Calls : CommandTimeout(c)

SpecClient == InitClient /\ [][NextClient]_vars

(***************************************************************************)
(* The interactive client: the task loop of orchestratorClient and         *)
(* completeTask, which calls itself when a task ends in input-required.    *)
(* Python values carry their type, so that the truth value of what         *)
(* completeTask returns is computed as `while continue_loop` computes it.  *)
(***************************************************************************)
PyBool(b) == [type |-> "bool", value |-> b]
PyNone == [type |-> "NoneType"]
PyStr(text) == [type |-> "str", value |-> text]
PyTuple(items) == [type |-> "tuple", items |-> items]

\* the truth value Python gives an object in `while x` and `if x`
PyTruthy(v) ==
    CASE v.type = "bool" -> v.value
      [] v.type = "NoneType" -> FALSE
      [] v.type = "str" -> v.value # ""
      [] v.type = "tuple" -> Len(v.items) > 0
      [] v.type = "dict" -> DOMAIN v.items # {}
      [] v.type = "ResponseFormat" -> TRUE

\* the follow-up prompts one task may raise
MaxFollowUps == 2

\* answers to "What do you want to send to the agent?"
Prompts == {":q", "quit", "q", "list agents"}

\* the context ids the agent answers with: that of the request, and another
ContextIds == {"ctx", "ctx-2"}

\* what the agent answers to one message: the call raises, a JSON-RPC error,
\* a Message, or a Task in the state that the client reads from it (with
\* streaming, from get_task after the stream)
InteractiveReplies ==
    {[is |-> "raised"], [is |-> "error"]}
    \cup {[is |-> "Message", contextId |-> contextId] : contextId \in ContextIds}
    \cup {[is |-> "Task", id |-> "task-1", state |-> state, contextId |-> contextId] :
            state \in {"completed", "input-required", "failed"},
            contextId \in ContextIds}

NothingSent == [is |-> "none"]

\* `prompt == ":q" or prompt == "quit"`
IsQuit(prompt) == prompt = ":q" \/ prompt = "quit"

\* `return False, None, None`
QuitReturn == PyTuple(<<PyBool(FALSE), PyNone, PyNone>>)

\* the input-required branch passes the inner call's whole return value on as
\* the first element of its own
FollowUpReturn(inner, contextId, taskId) == PyTuple(<<inner, contextId, taskId>>)

\* the value the outermost completeTask returns when the innermost returns
\* `value`; `frames` are the calls waiting in `await completeTask(...)`
RECURSIVE ReturnThrough(_, _)
ReturnThrough(frames, value) ==
    IF frames = <<>> THEN value
    ELSE LET frame == frames[Len(frames)]
         IN  ReturnThrough(SubSeq(frames, 1, Len(frames) - 1),
                           FollowUpReturn(value, frame.contextId, frame.taskId))

\* `continue_loop, _, taskId = await completeTask(...)` and the loop test
LoopTurn(s, prompt, reply, returned) ==
    LET continue_loop == returned.items[1]
    IN  [pc |-> IF PyTruthy(continue_loop) THEN "prompt" ELSE "ended",
         streaming |-> s.streaming, context_id |-> s.context_id,
         contextId |-> s.context_id,
         frames |-> <<>>, taskId |-> PyNone,
         prompt |-> prompt, sent |-> reply, returned |-> returned]

\* orchestratorClient up to the first prompt
OrchestratorClient(c, streaming) ==
    /\ phase = "interactive"
    /\ calls[c].pc = "idle"
    /\ calls' = [calls EXCEPT ![c] =
          [pc |-> "prompt", streaming |-> streaming, context_id |-> PyStr("ctx"),
           contextId |-> PyStr("ctx"),
           frames |-> <<>>, taskId |-> PyNone,
           prompt |-> "", sent |-> NothingSent, returned |-> PyNone]]
    /\ UNCHANGED <<phase, bootIdx, agents, skill_keywords, last, before>>

\* one completeTask from its prompt to its return or to the follow-up
\* prompt.  With streaming an error response returns False and every event
\* sets contextId (lines 488-493); without, `event.root.result` of an error
\* response raises inside the try, event is neither Task nor Message and the
\* call returns True (lines 510-525, 587), and contextId is set only when
\* it is empty.  A call that raises outside the try ends the client.
CompleteTask(c, prompt, reply) ==
    /\ calls[c].pc = "prompt"
    /\ (reply.is = "Task" /\ reply.state = "input-required")
          => Len(calls[c].frames) < MaxFollowUps
    /\ LET s == calls[c]
           event == reply.is \in {"Message", "Task"}
           contextId == IF event /\ (s.streaming \/ ~PyTruthy(s.contextId))
                        THEN PyStr(reply.contextId)
                        ELSE s.contextId
           taskId == IF reply.is # "Task" THEN s.taskId
                     ELSE IF s.streaming \/ ~PyTruthy(s.taskId) THEN PyStr(reply.id)
                     ELSE s.taskId
           return(first) ==
               ReturnThrough(s.frames, PyTuple(<<first, contextId, taskId>>))
       IN  calls' = [calls EXCEPT ![c] =
               IF IsQuit(prompt)
               THEN LoopTurn(s, prompt, NothingSent, ReturnThrough(s.frames, QuitReturn))
               ELSE IF reply.is = "raised"
               THEN [s EXCEPT !.pc = "raised", !.prompt = prompt, !.sent = reply]
               ELSE IF reply.is = "error"
               THEN IF s.streaming
                    THEN LoopTurn(s, prompt, reply, return(PyBool(FALSE)))
                    ELSE IF ~PyTruthy(s.contextId)
                    THEN [s EXCEPT !.pc = "raised", !.prompt = prompt, !.sent = reply]
                    ELSE LoopTurn(s, prompt, reply, return(PyBool(TRUE)))
               ELSE IF reply.is = "Task" /\ reply.state = "input-required"
               THEN [s EXCEPT !.frames = Append(@, [contextId |-> contextId,
                                                    taskId |-> taskId]),
                              !.contextId = contextId,
                              !.taskId = taskId, !.prompt = prompt, !.sent = reply]
               ELSE LoopTurn(s, prompt, reply, return(PyBool(TRUE)))]
    /\ UNCHANGED <<phase, bootIdx, agents, skill_keywords, last, before>>

InitInteractive ==
    /\ phase = "interactive"
    /\ bootIdx = 1
    /\ agents = <<>>
    /\ skill_keywords = EmptyDict
    /\ calls = [c \in Calls |-> IdleCall]
    /\ last = NoOp
    /\ before = NoBefore

NextInteractive ==
    \/ \E c \in Calls, streaming \in BOOLEAN : OrchestratorClient(c, streaming)
    \/ \E c \in Calls, prompt \in Prompts, reply \in InteractiveReplies :
          CompleteTask(c, prompt, reply)

SpecInteractive == InitInteractive /\ [][NextInteractive]_vars

(***************************************************************************)
(* The ArgoCD agent: the graph keeps one state per thread_id, a run of     *)
(* the graph leaves a structured response in it, and get_agent_response    *)
(* turns what is stored for a thread into the dict the executor reads.     *)
(***************************************************************************)
Threads == {"ctx-1", "ctx-2"}

\* class ResponseFormat: the three values of status, and some messages
ResponseStatuses == {"input_required", "completed", "error"}
ResponseMessages == {"", "Synced guestbook", "Which application?"}
ResponseFormat(status, message) ==
    [type |-> "ResponseFormat", status |-> status, message |-> message]

PyDict(items) == [type |-> "dict", items |-> items]

\* what a thread's state may hold under 'structured_response'
StructuredResponses ==
    {ResponseFormat(status, message) :
        status \in ResponseStatuses, message \in ResponseMessages}
    \cup {PyNone, PyStr("completed"), PyStr(""), PyDict(EmptyDict),
          PyDict([status |-> "completed", message |-> "Synced guestbook"])}

\* current_state.values: a dict with or without the key
StateValues ==
    {EmptyDict} \cup
    {[structured_response |-> v] : v \in StructuredResponses}

\* current_state.values.get('structured_response')
GetStructuredResponse(values) ==
    IF "structured_response" \in DOMAIN values
    THEN values.structured_response ELSE PyNone

UnableToProcess == "We are unable to process your request at the moment. Please try again."

AgentResponse(is_task_complete, require_user_input, content) ==
    [is_task_complete |-> is_task_complete,
     require_user_input |-> require_user_input, content |-> content]

\* get_agent_response with an error status taken for a finished task
GetAgentResponseErrorCompletes(values) ==
    LET structured_response == GetStructuredResponse(values)
    IN  IF PyTruthy(structured_response) /\ structured_response.type = "ResponseFormat"
        THEN IF structured_response.status = "input_required"
             THEN AgentResponse(FALSE, TRUE, structured_response.message)
             ELSE AgentResponse(TRUE, FALSE, structured_response.message)
        ELSE AgentResponse(FALSE, TRUE, UnableToProcess)

\* get_agent_response, from the values of the thread's state on
GetAgentResponseOf(values) ==
    LET structured_response == GetStructuredResponse(values)
    IN  IF PyTruthy(structured_response) /\ structured_response.type = "ResponseFormat"
        THEN IF structured_response.status = "input_required"
             THEN AgentResponse(FALSE, TRUE, structured_response.message)
             ELSE IF structured_response.status = "error"
             THEN AgentResponse(FALSE, TRUE, structured_response.message)
             ELSE IF structured_response.status = "completed"
             THEN AgentResponse(TRUE, FALSE, structured_response.message)
             ELSE AgentResponse(FALSE, TRUE, UnableToProcess)
        ELSE AgentResponse(FALSE, TRUE, UnableToProcess)

\* a run of the graph for a thread leaves its values in the thread's state
GraphStream(c, thread_id, values) ==
    /\ phase = "agent"
    /\ calls' = [calls EXCEPT ![c].graph[thread_id] = values]
    /\ last' = [op |-> "stream", thread_id |-> thread_id]
    /\ UNCHANGED <<phase, bootIdx, agents, skill_keywords, before>>

\* get_agent_response(config)
GetAgentResponse(c, thread_id) ==
    /\ phase = "agent"
    /\ last' = [op |-> "get_agent_response", thread_id |-> thread_id,
                response |-> GetAgentResponseOf(calls[c].graph[thread_id])]
    /\ UNCHANGED <<phase, bootIdx, agents, skill_keywords, calls, before>>

InitAgent ==
    /\ phase = "agent"
    /\ bootIdx = 1
    /\ agents = <<>>
    /\ skill_keywords = EmptyDict
    /\ calls = [c \in Calls |->
                  [pc |-> "agent", graph |-> [thread_id \in Threads |-> EmptyDict]]]
    /\ last = NoOp
    /\ before = NoBefore

NextAgent ==
    \/ \E c \in Calls, thread_id \in Threads, values \in StateValues :
          GraphStream(c, thread_id, values)
    \/ \E c \in Calls, thread_id \in Threads : GetAgentResponse(c, thread_id)

SpecAgent == InitAgent /\ [][NextAgent]_vars

(***************************************************************************)
(* Properties.                                                             *)
(***************************************************************************)
Range(list) == {list[i] : i \in 1..Len(list)}

\* the score of the i-th registry entry for a request, in the current state
ScoreAt(i, request) ==
    CalculateAgentScore(request, agents[i].card, skill_keywords).score

\* a step of call c that is the analyze node of a new request
AnalyzeStep(c) == calls[c].pc \in {"idle", "done"} /\ calls'[c] # calls[c]

NotesFallback(reasoning) ==
    \E n \in 1..Len(reasoning) : reasoning[n].part = "using default ArgoCD agent"

\* C1: with zero registered agents, process_request returns, for any request
\* text, an envelope that selects the default agent "argocd" with confidence
\* 0.3 and a reasoning that notes the default fallback.  With an empty
\* registry the call ends in the analyze node, so the envelope is the one
\* that step leaves.
C1_EmptyRegistryFallsBack ==
    [][\A c \in Calls :
          (AnalyzeStep(c) /\ agents = <<>>)
          => /\ calls'[c].pc = "route"
             /\ calls'[c].selected_agent = DefaultAgentId
             /\ calls'[c].confidence = 30
             /\ NotesFallback(calls'[c].reasoning)]_vars

\* C2: when at least one agent scores above 0, analyze selects an agent whose
\* score is the maximum over the registry, and the first such agent in
\* registry order.
C2_FirstMaximumSelected ==
    [][\A c \in Calls :
          (AnalyzeStep(c) /\ \E i \in 1..Len(agents) : ScoreAt(i, calls'[c].request) > 0)
          => /\ calls'[c].pc = "route"
             /\ \E i \in 1..Len(agents) :
                   LET request == calls'[c].request IN
                   /\ agents[i].id = calls'[c].selected_agent
                   /\ calls'[c].best_score = ScoreAt(i, request)
                   /\ \A j \in 1..Len(agents) : ScoreAt(j, request) <= ScoreAt(i, request)
                   /\ \A j \in 1..(i - 1) : ScoreAt(j, request) < ScoreAt(i, request)]_vars

\* C2 witness: a call has just selected the first of two agents that tie
\* with a positive score for its request.
C2_Witness ==
    \E c \in Calls :
        /\ calls[c].pc = "route"
        /\ Len(agents) = 2
        /\ ScoreAt(1, calls[c].request) > 0
        /\ ScoreAt(1, calls[c].request) = ScoreAt(2, calls[c].request)
        /\ calls[c].selected_agent = agents[1].id
        /\ calls[c].best_score = ScoreAt(1, calls[c].request)

\* C3: when the registry is non-empty and no agent scores above 0,
\* process_request falls back to "argocd" with score 0.3 and goes on to a
\* success envelope that names it, whatever the registry holds.
C3_NoScoreFallsBack ==
    [][\A c \in Calls :
          (/\ AnalyzeStep(c)
           /\ agents # <<>>
           /\ \A i \in 1..Len(agents) : ScoreAt(i, calls'[c].request) = 0)
          => /\ calls'[c].pc = "route"
             /\ calls'[c].selected_agent = DefaultAgentId
             /\ calls'[c].best_score = 3]_vars

\* C4: in every success envelope, confidence = min(winningScore / 5.0, 1.0):
\* it lies in [0, 1] and is 1.0 exactly when the winning score is at least 5.0.
\* (confidence in hundredths, score in tenths: confidence / 100 = score / 50)
C4_ConfidenceFormula ==
    \A c \in Calls :
        (calls[c].pc = "done" /\ calls[c].result.success)
        => LET confidence == calls[c].result.confidence
               winningScore == calls[c].best_score
           IN  /\ confidence >= 0 /\ confidence <= 100
               /\ IF winningScore >= 50
                  THEN confidence = 100
                  ELSE confidence < 100 /\ confidence * 50 = winningScore * 100

\* C4 witness: a success envelope for a winning score above 5.0, capped at 1.0.
C4_Witness ==
    \E c \in Calls :
        /\ calls[c].pc = "done"
        /\ calls[c].result.success
        /\ calls[c].best_score > 50
        /\ calls[c].result.confidence = 100

\* C5: the score of a descriptor is 1.0 times the number of entries of the
\* concatenated tag list whose lower-cased form is a substring of the
\* lower-cased request, plus 1.5 times the number of its skills for which
\* some keyword of index[skill.name] is a substring of the lower-cased
\* request; matched_skills is the names of those skills, in skill order.
TagHits(card, request) ==
    UNION { { <<j, k>> : k \in {k \in 1..Len(card.skills[j].tags) :
                                   IsSubstring(Lower(card.skills[j].tags[k]), Lower(request))} } :
            j \in 1..Len(card.skills) }

SkillHits(card, request, index) ==
    {j \in 1..Len(card.skills) :
        /\ card.skills[j].name \in DOMAIN index
        /\ \E kw \in Range(index[card.skills[j].name]) : IsSubstring(kw, Lower(request))}

HitNames(card, hits) ==
    LET positions == SelectSeq([j \in 1..Len(card.skills) |-> j], LAMBDA j : j \in hits)
    IN  [n \in 1..Len(positions) |-> card.skills[positions[n]].name]

C5_ScoreFormula ==
    \A card \in Cards, request \in ScoredRequests :
        LET r == CalculateAgentScore(request, card, skill_keywords)
            hits == SkillHits(card, request, skill_keywords)
        IN  /\ r.score = 10 * Cardinality(TagHits(card, request)) + 15 * Cardinality(hits)
            /\ r.matched_skills = HitNames(card, hits)

\* C5 witness: two tags that differ only in case both count, and a skill
\* matches through a keyword that another agent's skill of the same name
\* brought into the index.
C5_Witness ==
    /\ phase = "ready"
    /\ HasKey(agents, NameMath) /\ HasKey(agents, NameMathLower)
    /\ CalculateAgentScore(<<"S", "U", "M", " ", "p", "l", "u", "s">>, CardMath, skill_keywords)
         = [score |-> 35, matched_skills |-> <<SkillAdd>>]
    /\ CalculateAgentScore(<<"p", "l", "u", "s">>, CardMath, skill_keywords)
         = [score |-> 15, matched_skills |-> <<SkillAdd>>]

\* C6: with exactly one registered agent, whose one skill currency_exchange
\* has the tags usd and inr, "how much is 10 USD in INR?" scores 3.5 and the
\* agent is selected with confidence 0.7.
IsCurrencyOnly(ags) ==
    /\ Len(ags) = 1
    /\ Len(ags[1].card.skills) = 1
    /\ ags[1].card.skills[1].name = SkillCurrencyExchange
    /\ ags[1].card.skills[1].tags = <<TagUsd, TagInr>>

C6_CurrencyExample ==
    [][\A c \in Calls :
          (AnalyzeStep(c) /\ IsCurrencyOnly(agents) /\ calls'[c].request = RequestCurrency)
          => /\ ScoreAt(1, RequestCurrency) = 35
             /\ calls'[c].pc = "route"
             /\ calls'[c].selected_agent = agents[1].id
             /\ calls'[c].best_score = 35
             /\ calls'[c].confidence = 70]_vars

\* C6 witness: the call has selected the only agent, the currency agent, for
\* the example request with confidence 0.7.
C6_Witness ==
    \E c \in Calls :
        /\ IsCurrencyOnly(agents)
        /\ calls[c].pc = "route"
        /\ calls[c].request = RequestCurrency
        /\ calls[c].selected_agent = agents[1].id
        /\ calls[c].confidence = 70

\* C7: unregister_agent resolves the identifier by registry key, then exact
\* URL, then case-insensitive name, then substring of the URL: when the
\* identifier matches one entry by a higher-priority form and another entry
\* by a lower-priority form, the higher-priority match is removed, whatever
\* the registration order.
FormRank(form) ==
    CASE form = "agent_id" -> 1
      [] form = "url" -> 2
      [] form = "name" -> 3
      [] form = "partial_url" -> 4
      [] form = "none" -> 5

C7_HigherPriorityFormWins ==
    [][\A agent_identifier \in Identifiers :
          UnregisterAgent(agent_identifier, TRUE)
          => \A i, j \in 1..Len(agents) :
                (/\ MatchesEntry(agents[j], agent_identifier)
                 /\ FormRank(MatchForm(agents[i], agent_identifier))
                      < FormRank(MatchForm(agents[j], agent_identifier)))
                => /\ last'.result.success
                   /\ last'.result.agent_id # agents[j].id]_vars

\* The forms by which an identifier names a card registered under its name.
IsFormOf(agent_identifier, card) ==
    \/ agent_identifier = card.name
    \/ agent_identifier = card.url
    \/ Lower(agent_identifier) = Lower(card.name)
    \/ IsSubstring(agent_identifier, card.url)

RoundTrip ==
    /\ last.op = "unregister_agent"
    /\ before.valid
    /\ IsFormOf(last.arg, before.card)

\* C8: registering A, absent before, and unregistering it by one of its four
\* identifier forms leaves registry and index as they were before the
\* registration, whatever other agents are registered. The priority order
\* of unregister_agent decides which entry an identifier names, so the
\* round trip is stated for the identifiers that name A under that order:
\* no agent registered before A matches the identifier by a form of equal
\* or higher priority than the form by which the identifier matches A.
NamesRegistered(agent_identifier, card, ags) ==
    LET rank == FormRank(MatchForm([id |-> card.name, card |-> card],
                                   agent_identifier))
    IN  \A i \in 1..Len(ags) :
            FormRank(MatchForm(ags[i], agent_identifier)) > rank

C8_RoundTripRestores ==
    (RoundTrip /\ NamesRegistered(last.arg, before.card, before.agents))
    => /\ agents = before.agents
       /\ skill_keywords = before.skill_keywords

\* the skill names that the agents of a registry carry
SkillNames(ags) ==
    UNION { {ags[i].card.skills[j].name : j \in 1..Len(ags[i].card.skills)} : i \in 1..Len(ags) }

\* C9: after construction and after any sequence of register_agent, add_agent
\* and unregister_agent calls, the keys of the index are exactly the skill
\* names carried by the registered agents.
C9_IndexKeysAreRegistrySkills ==
    phase = "ready" => DOMAIN skill_keywords = SkillNames(agents)

\* C9 witness: an unregistration has removed the only agent carrying some
\* skill, other agents remain, and the index has no key for that skill.
C9_Witness ==
    /\ last.op = "unregister_agent"
    /\ last.result.success
    /\ agents # <<>>
    /\ \E card \in Cards :
          /\ card.name = last.result.agent_name
          /\ \E j \in 1..Len(card.skills) : card.skills[j].name \notin DOMAIN skill_keywords

\* C10: for every skill name s of the registry, index[s] is a duplicate-free
\* list of lower-cased keywords, equal as a set to the union over the
\* registered skills named s of: the tags, the name lower-cased with
\* underscores as spaces, and those of the first three words of the
\* description that are longer than two characters.
\* the maximal blank-free stretches <<first, last>> of a string
Stretches(s) ==
    {r \in (1..Len(s)) \X (1..Len(s)) :
        /\ r[1] <= r[2]
        /\ \A k \in r[1]..r[2] : s[k] # " "
        /\ (r[1] = 1 \/ s[r[1] - 1] = " ")
        /\ (r[2] = Len(s) \/ s[r[2] + 1] = " ")}

FirstThreeWords(s) ==
    {SubSeq(s, r[1], r[2]) :
        r \in {r \in Stretches(s) : Cardinality({q \in Stretches(s) : q[1] < r[1]}) < 3}}

KeywordsOfSkill(skill) ==
    {Lower(tag) : tag \in Range(skill.tags)}
    \cup {ReplaceUnderscore(Lower(skill.name))}
    \cup {w \in FirstThreeWords(Lower(skill.description)) : Len(w) > 2}

C10_IndexContents ==
    phase = "ready" =>
        \A s \in SkillNames(agents) :
            LET keywords == skill_keywords[s]
            IN  /\ \A m, n \in 1..Len(keywords) : m # n => keywords[m] # keywords[n]
                /\ \A n \in 1..Len(keywords) : keywords[n] = Lower(keywords[n])
                /\ Range(keywords) =
                      UNION { UNION { KeywordsOfSkill(agents[i].card.skills[j]) :
                                      j \in {j \in 1..Len(agents[i].card.skills) :
                                                agents[i].card.skills[j].name = s} } :
                              i \in 1..Len(agents) }

\* C10 witness: two registered agents carry the skill "add"; its keywords
\* join the tags of both, the name, and "add" and "two" of "Add up TWO
\* numbers" ("up" is too short, "numbers" is the fourth word).
C10_Witness ==
    /\ phase = "ready"
    /\ HasKey(agents, NameMath) /\ HasKey(agents, NameMathLower)
    /\ Lookup(agents, NameMath) = CardMath
    /\ Range(skill_keywords[SkillAdd])
         = { <<"s", "u", "m">>, <<"+">>, <<"a", "d", "d">>, <<"t", "w", "o">>, <<"p", "l", "u", "s">> }
    /\ Len(skill_keywords[SkillAdd]) = 5

(***************************************************************************)
(* Registration and unregistration, step by step (SpecRegistry).           *)
(***************************************************************************)
\* C11: register_agent stores the card under its name: afterwards exactly
\* one entry has that name as key and it holds the card just fetched, the
\* other entries are the ones that were there, and the index is the one
\* built from the registry; when the entry already held the same card the
\* registry and the index are the same as before.
C11_RegisterKeyedByName ==
    [][\A endpoint \in Endpoints :
          RegisterAgent(endpoint, TRUE) /\ last'.result.success =>
              LET card == last'.card
              IN  /\ Cardinality({i \in 1..Len(agents') : agents'[i].id = card.name}) = 1
                  /\ Lookup(agents', card.name) = card
                  /\ \A i \in 1..Len(agents) :
                        agents[i].id # card.name =>
                            /\ HasKey(agents', agents[i].id)
                            /\ Lookup(agents', agents[i].id) = agents[i].card
                  /\ Keys(agents') = Keys(agents) \cup {card.name}
                  /\ DOMAIN skill_keywords' = SkillNames(agents')
                  /\ \A s \in SkillNames(agents') :
                        Range(skill_keywords'[s]) =
                            UNION { UNION { KeywordsOfSkill(agents'[i].card.skills[j]) :
                                            j \in {j \in 1..Len(agents'[i].card.skills) :
                                                      agents'[i].card.skills[j].name = s} } :
                                    i \in 1..Len(agents') }
                  /\ (HasKey(agents, card.name) /\ Lookup(agents, card.name) = card) =>
                        /\ agents' = agents
                        /\ skill_keywords' = skill_keywords]_vars

\* C11 witness: a registration has replaced the card that was held under
\* the same name by a different one, and the index follows the new card.
C11_Witness ==
    /\ last.op = "register_agent"
    /\ last.result.success
    /\ last.replaced = CardCurrency
    /\ last.card = CardCurrency2
    /\ Lookup(agents, NameCurrency) = CardCurrency2
    /\ Cardinality({i \in 1..Len(agents) : agents[i].id = NameCurrency}) = 1
    /\ TagInr \in Range(skill_keywords[SkillCurrencyExchange])

\* no entry of the registry matches the identifier in any of the four forms
NoFormMatches(ags, agent_identifier) ==
    \A i \in 1..Len(ags) :
        /\ ags[i].id # agent_identifier
        /\ ags[i].card.url # agent_identifier
        /\ Lower(ags[i].card.name) # Lower(agent_identifier)
        /\ ~IsSubstring(agent_identifier, ags[i].card.url)

\* C12: unregister_agent with an identifier that matches no entry by id,
\* url, name or url substring returns success = false with an error string
\* and leaves the registry and the index as they were.
C12_UnregisterUnknown ==
    [][\A agent_identifier \in Identifiers :
          UnregisterAgent(agent_identifier, TRUE)
          /\ NoFormMatches(agents, agent_identifier) =>
              /\ last'.result.success = FALSE
              /\ "error" \in DOMAIN last'.result
              /\ agents' = agents
              /\ skill_keywords' = skill_keywords]_vars

\* C12 witness: an unregistration of an identifier that matches none of the
\* registered agents has returned its error envelope.
C12_Witness ==
    /\ last.op = "unregister_agent"
    /\ ~last.result.success
    /\ agents # <<>>
    /\ NoFormMatches(agents, last.arg)

\* C13: when the fetch of the card fails, register_agent returns an
\* envelope with success = false and an error string, and the registry and
\* the index stay as they were.
C13_RegisterFetchFails ==
    [][\A endpoint \in Endpoints :
          RegisterAgent(endpoint, TRUE) /\ last'.card = NoCard =>
              /\ last'.result.success = FALSE
              /\ "error" \in DOMAIN last'.result
              /\ agents' = agents
              /\ skill_keywords' = skill_keywords]_vars

\* C13 witness: a registration whose fetch failed has returned, with agents
\* in the registry.
C13_Witness ==
    /\ last.op = "register_agent"
    /\ last.card = NoCard
    /\ ~last.result.success
    /\ agents # <<>>
    /\ DOMAIN skill_keywords # {}

\* the cards that __init__ fetched, in the order of default_agents
Loaded(fetched) == SelectSeq(fetched, LAMBDA agent_card : agent_card # NoCard)

\* C14: __init__ goes through all of default_agents whatever fetches fail;
\* when it is done the registry holds exactly the cards that were fetched,
\* each under its name, nothing for an endpoint whose fetch failed, and the
\* index is the one built from these cards.
C14_BootstrapFailuresIsolated ==
    /\ (phase = "boot" /\ last.op = "__init__") => Len(last.fetched) = bootIdx - 1
    /\ (phase = "ready" /\ last.op = "__init__") =>
          LET loaded == Loaded(last.fetched)
          IN  /\ Len(last.fetched) = Len(DefaultAgents)
              /\ agents = [i \in 1..Len(loaded) |->
                              [id |-> loaded[i].name, card |-> loaded[i]]]
              /\ \A k \in 1..Len(DefaultAgents) :
                    last.fetched[k] = NoCard =>
                        \A i \in 1..Len(agents) : agents[i].card.url # DefaultAgents[k]
              /\ DOMAIN skill_keywords =
                    UNION {{loaded[i].skills[j].name : j \in 1..Len(loaded[i].skills)} :
                           i \in 1..Len(loaded)}
              /\ \A s \in DOMAIN skill_keywords :
                    Range(skill_keywords[s]) =
                        UNION { UNION { KeywordsOfSkill(loaded[i].skills[j]) :
                                        j \in {j \in 1..Len(loaded[i].skills) :
                                                  loaded[i].skills[j].name = s} } :
                                i \in 1..Len(loaded) }

\* C14 witness: __init__ is done, the first and the third fetch failed and
\* the second one is the only agent loaded.
C14_Witness ==
    /\ phase = "ready"
    /\ last.op = "__init__"
    /\ last.fetched[1] = NoCard
    /\ last.fetched[2] = CardCurrency
    /\ last.fetched[3] = NoCard
    /\ Keys(agents) = {NameCurrency}
    /\ DOMAIN skill_keywords = {SkillCurrencyExchange}

(***************************************************************************)
(* The forwarder and what process_request makes of its outcome.            *)
(***************************************************************************)
\* the step of call c that builds the envelope from the state after route
ReturnStep(c) == calls[c].pc = "envelope" /\ calls'[c].pc = "done"

\* the response of the routed state carries a forwarding error
ForwardFailed(s) == "could_not_forward" \in DOMAIN s.response

\* the envelope that answers a call whose forwarding failed: the decision
\* of analyze, the forwarding error and the status routing_only
RoutingOnlyEnvelope(s, r) ==
    /\ r.success
    /\ r.selected_agent_id = s.selected_agent
    /\ r.selected_agent_name = Lookup(agents, s.selected_agent).name
    /\ r.confidence = s.confidence
    /\ r.reasoning = s.reasoning
    /\ r.response = s.response
    /\ r.response.confidence = s.confidence
    /\ r.response.reasoning = s.reasoning
    /\ r.response.could_not_forward \in {o.text : o \in {o \in ForwardOutcomes : o.raised}}
    /\ r.metadata.status = "routing_only"

\* C15: whenever forwarding has failed during route, the
\* envelope that process_request returns has success = true and carries
\* the selected agent's id and name, the confidence and the reasoning of
\* analyze, the forwarding error in the response and the status
\* routing_only.
C15_ForwardFailureKeepsDecision ==
    [][\A c \in Calls :
          ReturnStep(c) /\ ForwardFailed(calls[c]) =>
              RoutingOnlyEnvelope(calls[c], calls'[c].result)]_vars

\* the call is in the forwarder or has just left it
InForwarder(s) == "traffic" \in DOMAIN s

\* the reply that the forwarder has read last
LastReply(s) == IF s.traffic.polls = 0 THEN s.sent ELSE s.polled

\* a result that is neither a task nor a message
Unrecognized(result) ==
    \/ ~IsDict(result)
    \/ /\ ~({"id", "status"} \subseteq DOMAIN result)
       /\ "parts" \notin DOMAIN result

\* a reply with a status code outside 2xx, with an error field, without a
\* result field or with a result of unrecognized shape
Defective(response) ==
    IF response.status_code \notin 200..299 THEN TRUE
    ELSE IF "error" \in DOMAIN response.body THEN TRUE
    ELSE IF "result" \notin DOMAIN response.body THEN TRUE
    ELSE Unrecognized(response.body.result)

\* C16: once the forwarder has read a defective reply, to
\* message/send or to any tasks/get, it has raised: the call has left the
\* forwarder with the status routing_only.
C16_DefectiveRepliesAreRaised ==
    \A c \in Calls :
        (InForwarder(calls[c]) /\ Defective(LastReply(calls[c]))) =>
            /\ calls[c].pc = "envelope"
            /\ calls[c].status = "routing_only"

\* the task state that a reply to tasks/get shows, "None" when it shows none
ObservedState(response) ==
    IF /\ response.status_code \in 200..299
       /\ "result" \in DOMAIN response.body
       /\ IsDict(response.body.result)
       /\ "status" \in DOMAIN response.body.result
       /\ IsDict(response.body.result.status)
       /\ "state" \in DOMAIN response.body.result.status
    THEN response.body.result.status.state
    ELSE "None"

\* every item of the list is an object
Objects(items) == \A i \in 1..Len(items) : IsDict(items[i])

\* the parts that an artifact or a status message holds
PartsIn(item) == IF "parts" \in DOMAIN item THEN item.parts ELSE <<>>

\* the artifacts that a task holds
ArtifactsIn(task_data) ==
    IF "artifacts" \in DOMAIN task_data THEN task_data.artifacts ELSE <<>>

\* the task is one of the remote task protocol: its artifacts and their
\* parts are objects, and so are its status message, unless it is null, and
\* the parts of that
Conforms(task_data) ==
    /\ Objects(ArtifactsIn(task_data))
    /\ \A i \in 1..Len(ArtifactsIn(task_data)) :
          Objects(PartsIn(ArtifactsIn(task_data)[i]))
    /\ "message" \in DOMAIN task_data.status =>
          /\ task_data.status.message = JsonNull \/ IsDict(task_data.status.message)
          /\ Objects(PartsIn(task_data.status.message))

\* C17: the poll loop is bounded: the forwarder never sends more than 30
\* tasks/get, it has slept once before each, every step inside the loop is
\* a sleep or a poll that counts, and the forwarder that has ended after a
\* poll that showed the task working has sent exactly 30 tasks/get after 30
\* sleeps and returned the timeout message; it leaves the loop between two
\* polls only after the 30th.
C17_PollLoopBounded ==
    /\ [](\A c \in Calls :
            InForwarder(calls[c]) =>
                LET s == calls[c]
                IN  /\ s.traffic.polls <= 30
                    /\ s.traffic.sleeps = s.traffic.polls + (IF s.pc = "poll" THEN 1 ELSE 0)
                    /\ s.pc = "poll" => s.traffic.polls < 30
                    /\ (s.pc = "envelope" /\ s.traffic.polls >= 1
                        /\ ObservedState(s.polled) = "working") =>
                            /\ s.traffic = [sends |-> 1, polls |-> 30, sleeps |-> 30]
                            /\ s.response.actual_response
                                  = "Task did not complete within timeout"
                            /\ s.status = "completed")
    /\ [][\A c \in Calls :
            (InForwarder(calls[c]) /\ calls[c].pc \in {"loop", "poll"}) =>
                \/ /\ calls'[c].pc = "envelope"
                   /\ calls[c].pc = "loop" => calls[c].traffic.polls = 30
                \/ /\ calls'[c].pc \in {"loop", "poll"}
                   /\ calls'[c].traffic.polls + calls'[c].traffic.sleeps
                         = calls[c].traffic.polls + calls[c].traffic.sleeps + 1]_vars

\* C17 witness: thirty polls have shown the task working and the forwarder
\* has returned the timeout message.
C17_Witness ==
    \E c \in Calls :
        /\ InForwarder(calls[c])
        /\ calls[c].pc = "envelope"
        /\ calls[c].traffic = [sends |-> 1, polls |-> 30, sleeps |-> 30]
        /\ ObservedState(calls[c].polled) = "working"
        /\ calls[c].response.actual_response = "Task did not complete within timeout"

\* the texts that a list of parts holds
TextsOf(parts) == {parts[j].text : j \in {j \in 1..Len(parts) : "text" \in DOMAIN parts[j]}}

\* what the forwarder may return from a task in one of the three states
\* that end the polling
TextsFrom(task_data) ==
    CASE task_data.status.state = "failed" -> {"Agent task failed"}
      [] task_data.status.state = "completed" ->
            {"Task completed but no response text found", "No text in response"}
            \cup UNION {TextsOf(PartsIn(ArtifactsIn(task_data)[i])) :
                           i \in 1..Len(ArtifactsIn(task_data))}
      [] task_data.status.state = "input-required" ->
            {"Agent requires input but no message provided",
             "No text in input-required response"}
            \cup (IF "message" \in DOMAIN task_data.status
                  THEN TextsOf(PartsIn(task_data.status.message))
                  ELSE {})

C19_FailedStopsPolling ==
    \A c \in Calls :
        (/\ InForwarder(calls[c])
         /\ calls[c].traffic.polls >= 1
         /\ ObservedState(calls[c].polled) = "failed") =>
            /\ calls[c].pc = "envelope"
            /\ calls[c].status = "completed"
            /\ calls[c].response.actual_response = "Agent task failed"
            /\ calls[c].traffic.polls = calls[c].attempt + 1
            /\ calls[c].traffic.sends = 1

\* C19 witness: the third poll showed the task failed.
C19_Witness ==
    \E c \in Calls :
        /\ InForwarder(calls[c])
        /\ calls[c].pc = "envelope"
        /\ calls[c].traffic = [sends |-> 1, polls |-> 3, sleeps |-> 3]
        /\ ObservedState(calls[c].polled) = "failed"
        /\ calls[c].response.actual_response = "Agent task failed"

\* the positions <<artifact, part>> of the text parts of a list of artifacts
TextPositions(artifacts) ==
    UNION {{<<i, j>> : j \in {j \in 1..Len(PartsIn(artifacts[i])) :
                                 /\ "kind" \in DOMAIN PartsIn(artifacts[i])[j]
                                 /\ PartsIn(artifacts[i])[j].kind = "text"}} :
           i \in 1..Len(artifacts)}

FailedReply ==
    Reply(200, [jsonrpc |-> "2.0",
                result |-> [id |-> TaskId, status |-> [state |-> "failed"]]])

\* the routed state of the same call had its last poll shown the task failed
FailedTwin(s) ==
    [s EXCEPT !.response.actual_response = "Agent task failed",
              !.status = "completed",
              !.polled = FailedReply]

\* the parts of a list that are text parts, by either tag
TextPartsOf(parts) ==
    {j \in 1..Len(parts) :
        \/ ("kind" \in DOMAIN parts[j] /\ parts[j].kind = "text")
        \/ ("type" \in DOMAIN parts[j] /\ parts[j].type = "text")}

\* C21: when a poll has shown input-required in a task of the protocol the
\* forwarder has returned the
\* text of the status message as a normal response: the envelope has
\* success = true and the status completed, and it differs from the
\* envelope the same call returns when the poll shows the task failed.
C21_InputRequiredIsDistinctResponse ==
    \A c \in Calls :
        (/\ InForwarder(calls[c])
         /\ calls[c].traffic.polls >= 1
         /\ ObservedState(calls[c].polled) = "input-required"
         /\ Conforms(calls[c].polled.body.result)) =>
            LET s == calls[c]
                status == s.polled.body.result.status
                parts == IF "message" \in DOMAIN status
                         THEN PartsIn(status.message) ELSE <<>>
                texts == {j \in TextPartsOf(parts) : "text" \in DOMAIN parts[j]}
            IN  /\ s.pc = "envelope"
                /\ Envelope(agents, s).success
                /\ Envelope(agents, s).metadata.status = "completed"
                /\ texts # {} =>
                      s.response.actual_response
                         = parts[CHOOSE j \in texts : \A k \in texts : j <= k].text
                /\ Envelope(agents, s) # Envelope(agents, FailedTwin(s))

\* the reply to message/send holds a message: an object that is no task,
\* with objects as parts
IsMessageReply(response) ==
    /\ response.status_code \in 200..299
    /\ "error" \notin DOMAIN response.body
    /\ "result" \in DOMAIN response.body
    /\ IsDict(response.body.result)
    /\ "parts" \in DOMAIN response.body.result
    /\ Objects(response.body.result.parts)
    /\ ~({"id", "status"} \subseteq DOMAIN response.body.result)

\* C22: when the reply to message/send holds a message the forwarder has
\* returned the text of its first text part without any tasks/get, and a
\* tasks/get is only ever sent after a reply that holds a task.
C22_MessageReturnedWithoutPolling ==
    \A c \in Calls :
        InForwarder(calls[c]) =>
            LET s == calls[c]
            IN  /\ IsMessageReply(s.sent) =>
                      LET parts == s.sent.body.result.parts
                          texts == TextPartsOf(parts)
                      IN  /\ s.pc = "envelope"
                          /\ s.traffic = [sends |-> 1, polls |-> 0, sleeps |-> 0]
                          /\ s.status = "completed"
                          /\ texts # {} =>
                                s.response.actual_response
                                   = parts[CHOOSE j \in texts : \A k \in texts : j <= k].text
                /\ s.traffic.polls + s.traffic.sleeps >= 1 =>
                      /\ ~IsMessageReply(s.sent)
                      /\ {"id", "status"} \subseteq DOMAIN s.sent.body.result

(***************************************************************************)
(* process_request next to the registry operations (Spec).                 *)
(***************************************************************************)
\* C23: when route starts and the selected agent is no longer in the
\* registry, the call ends there: it returns an envelope with success =
\* false and the missing key as error, and never enters the forwarder.
C23_VanishedAgentNotContacted ==
    [][\A c \in Calls :
          (/\ calls[c].pc = "route"
           /\ ~HasKey(agents, calls[c].selected_agent)
           /\ calls'[c] # calls[c]) =>
              /\ calls'[c].pc = "done"
              /\ calls'[c].result.success = FALSE
              /\ "error" \in DOMAIN calls'[c].result
              /\ calls'[c].result.error = <<"KeyError", calls[c].selected_agent>>]_vars

\* C23 witness: analyze had selected the currency agent on score, the agent
\* was unregistered before route started, and the call has returned the
\* error envelope from route.
C23_Witness ==
    \E c \in Calls :
        /\ calls[c].pc = "done"
        /\ calls[c].stage = "route"
        /\ calls[c].best_score = 35
        /\ ~calls[c].result.success
        /\ calls[c].result.error = <<"KeyError", NameCurrency>>
        /\ ~HasKey(agents, NameCurrency)

\* C24: once __init__ is done, every state that an operation can start or
\* resume in has the index that a full rebuild of the registry of that
\* state gives.
C24_IndexIsRebuildOfRegistry ==
    phase = "ready" => skill_keywords = UpdateSkillKeywords(agents)

\* C24 witness: a call is waiting in the forwarder, the agent it selected
\* has been unregistered in the meantime, and the index holds the skills of
\* the agents that remain.
C24_Witness ==
    \E c \in Calls :
        /\ calls[c].pc = "forward"
        /\ ~HasKey(agents, calls[c].selected_agent)
        /\ agents # <<>>
        /\ \A j \in 1..Len(calls[c].agent_card.skills) :
              calls[c].agent_card.skills[j].name \notin DOMAIN skill_keywords
        /\ DOMAIN skill_keywords = SkillNames(agents)

(***************************************************************************)
(* The order of the pipeline and the shape of the envelopes.               *)
(***************************************************************************)
\* the steps a call can take: analyze, then route (its start, the
\* forwarder, its end), then the envelope; a call that has returned can
\* only be followed by the analyze of the next call
PipelineSteps ==
    ({"idle", "done"} \X {"route", "done"})
    \cup {<<"route", "forward">>, <<"route", "done">>,
          <<"forward", "loop">>, <<"forward", "envelope">>,
          <<"loop", "poll">>, <<"loop", "envelope">>,
          <<"poll", "loop">>, <<"poll", "envelope">>,
          <<"envelope", "done">>}

\* C25: a call goes through analyze once, then through route once: the
\* forwarder sends only in a call whose selected agent, confidence and
\* reasoning are set, route and the forwarder leave them as analyze set
\* them, and the envelope returns them.
C25_AnalyzeThenRouteOnce ==
    [][\A c \in Calls :
          calls'[c] # calls[c] =>
              LET s == calls[c]
                  t == calls'[c]
              IN  /\ <<s.pc, t.pc>> \in PipelineSteps
                  /\ InForwarder(t) =>
                        /\ s.pc \in {"forward", "loop", "poll"}
                        /\ {"selected_agent", "confidence", "reasoning"} \subseteq DOMAIN s
                  /\ (s.pc \in {"route", "forward", "loop", "poll"} /\ t.pc # "done") =>
                        /\ t.selected_agent = s.selected_agent
                        /\ t.confidence = s.confidence
                        /\ t.reasoning = s.reasoning
                  /\ (s.pc = "envelope" /\ t.result.success) =>
                        /\ t.result.selected_agent_id = s.selected_agent
                        /\ t.result.confidence = s.confidence
                        /\ t.result.reasoning = s.reasoning]_vars

\* C25 witness: the forwarder has sent message/send and two tasks/get for
\* the call that analyze had routed to the currency agent with confidence
\* 0.7, and route has ended with these unchanged.
C25_Witness ==
    \E c \in Calls :
        /\ InForwarder(calls[c])
        /\ calls[c].pc = "envelope"
        /\ calls[c].traffic = [sends |-> 1, polls |-> 2, sleeps |-> 2]
        /\ calls[c].selected_agent = NameCurrency
        /\ calls[c].confidence = 70
        /\ calls[c].best_score = 35

\* an envelope: a boolean success, an error exactly when success is false,
\* the data fields exactly when it is true
IsEnvelope(r, data) ==
    /\ "success" \in DOMAIN r
    /\ r.success \in BOOLEAN
    /\ ("error" \in DOMAIN r) <=> ~r.success
    /\ \A field \in data : (field \in DOMAIN r) <=> r.success

RegistryData == {"agent_id", "agent_name", "endpoint", "message"}

ProcessData == {"selected_agent_id", "selected_agent_name", "agent_skills",
                "confidence", "reasoning", "response"}

\* C26: whatever the fetch answers, register_agent returns an envelope; so
\* does unregister_agent for every identifier, and so does process_request
\* whatever the selected agent answers.
C26_OperationsReturnEnvelopes ==
    /\ \A endpoint \in Endpoints :
          \A agent_card \in Served(endpoint) \cup {NoCard} :
              IsEnvelope(RegisterResult(agents, endpoint, agent_card).result, RegistryData)
    /\ \A agent_identifier \in Identifiers :
          IsEnvelope(UnregisterResult(agents, agent_identifier).result, RegistryData)
    /\ \A c \in Calls :
          /\ calls[c].pc = "done" => IsEnvelope(calls[c].result, ProcessData)
          /\ calls[c].pc = "envelope" => IsEnvelope(Envelope(agents, calls[c]), ProcessData)

\* C26 witness: a call has returned the envelope of an error, with agents
\* in the registry.
C26_Witness ==
    \E c \in Calls :
        /\ calls[c].pc = "done"
        /\ ~calls[c].result.success
        /\ "error" \in DOMAIN calls[c].result
        /\ "response" \notin DOMAIN calls[c].result
        /\ agents # <<>>

(***************************************************************************)
(* The executor.                                                           *)
(***************************************************************************)
\* the text of a query after its prefix, without the blanks around it
AfterPrefix(query, prefix) == Strip(SubSeq(query, Len(prefix) + 1, Len(query)))

\* C27: execute calls one method for each query it does not turn down: LIST_AGENTS gives the
\* agent_list document with total_count the number of agents listed and
\* the number of registry entries; REGISTER_AGENT:<endpoint> calls
\* register_agent with the endpoint, UNREGISTER_AGENT:<identifier> calls
\* unregister_agent with the identifier, and any other text is the
\* request of process_request.
C27_ExecutorDispatch ==
    \A x \in {Finished(last)} \cup {Running(last)[c] : c \in ConcurrentCalls} :
        (x # NoExecute /\ "raised" \notin DOMAIN x) =>
            IF Strip(x.query) = ListCommand
            THEN /\ x.called = "get_available_agents"
                 /\ x.response.type = "agent_list"
                 /\ x.response.total_count = Len(x.response.agents)
                 /\ x.response.total_count = Len(agents)
            ELSE IF StartsWith(x.query, RegisterPrefix)
            THEN /\ x.called = "register_agent"
                 /\ x.arg = AfterPrefix(x.query, RegisterPrefix)
            ELSE IF StartsWith(x.query, UnregisterPrefix)
            THEN /\ x.called = "unregister_agent"
                 /\ x.arg = AfterPrefix(x.query, UnregisterPrefix)
            ELSE /\ x.called = "process_request"
                 /\ x.arg = x.query

(***************************************************************************)
(* Concurrent calls.                                                       *)
(***************************************************************************)
\* what process_request returns for the request when no other call runs:
\* one envelope for each outcome of the forwarder
AloneResults(request) ==
    LET a == AnalyzeRequest(agents, skill_keywords, request)
    IN  IF a.raised
        THEN {KeyError(request, a.key)}
        ELSE LET agent_card == Lookup(agents, a.selected_agent)
                 routed == [request |-> request,
                            selected_agent |-> a.selected_agent,
                            confidence |-> a.confidence,
                            reasoning |-> a.reasoning,
                            best_score |-> a.best_score,
                            agent_card |-> agent_card]
             IN  { Envelope(agents,
                            [request |-> request,
                             selected_agent |-> a.selected_agent,
                             confidence |-> a.confidence,
                             reasoning |-> a.reasoning,
                             agent_endpoint |-> agent_card.url,
                             response |-> RouteResponse(routed, outcome).response,
                             status |-> RouteResponse(routed, outcome).status])
                   : outcome \in ForwardOutcomes }

\* C28: with two calls in flight on an unchanged registry, a step of one
\* call leaves the state of the other call as it is, and the envelope a
\* call returns is one that its request gets when it runs alone.
C28_ConcurrentCallsIndependent ==
    [][\A c \in ConcurrentCalls :
          calls'[c] # calls[c] =>
              /\ \A d \in ConcurrentCalls \ {c} : calls'[d] = calls[d]
              /\ calls'[c].pc = "done" =>
                    calls'[c].result \in AloneResults(calls'[c].request)]_vars

\* C28 witness: both calls are in flight, after their route nodes: one was
\* routed to the currency agent and got its answer, the other was routed to
\* the math agent, which could not be reached.
C28_Witness ==
    /\ calls["c1"].pc = "envelope"
    /\ calls["c2"].pc = "envelope"
    /\ calls["c1"].selected_agent = NameCurrency
    /\ calls["c1"].status = "completed"
    /\ calls["c2"].selected_agent = NameMath
    /\ calls["c2"].status = "routing_only"

\* the call has the decision of analyze in its state
Analyzed(s) == s.pc \in {"route", "forward", "envelope"}

\* the score of a card for a request, counted over sets of positions
HitScore(card, request, index) ==
    10 * Cardinality(TagHits(card, request))
    + 15 * Cardinality(SkillHits(card, request, index))

NoneScores(request) ==
    \A i \in 1..Len(agents) :
        CalculateAgentScore(request, agents[i].card, skill_keywords).score = 0

\* the reasoning lists a matched keyword or a matched skill
ListsMatch(reasoning) ==
    \E n \in 1..Len(reasoning) :
        /\ reasoning[n].part \in {"based on keywords:", "and skills:", "based on skills:"}
        /\ reasoning[n].items # <<>>

\* C30: the reasoning that analyze writes starts with the name of the
\* selected agent; it says that the default agent was used exactly when no
\* registered agent scored above 0, and it lists a matched keyword or a
\* matched skill whenever the agent was selected on its score.
C30_ReasoningTellsTheSelection ==
    [][\A c \in Calls :
          (AnalyzeStep(c) /\ calls'[c].pc = "route") =>
              LET t == calls'[c]
              IN  /\ t.reasoning[1] =
                        [part |-> "Selected",
                         items |-> <<Lookup(agents, t.selected_agent).name>>]
                  /\ NotesFallback(t.reasoning) <=> NoneScores(t.request)
                  /\ ~NoneScores(t.request) => ListsMatch(t.reasoning)
                  /\ NoneScores(t.request) => ~ListsMatch(t.reasoning)]_vars

\* C30 witness: analyze has fallen back to the key "argocd", which holds
\* the card named ArgoCD Agent, for a request that no agent scores on; the
\* reasoning names ArgoCD Agent and notes the default.
C30_Witness ==
    \E c \in Calls :
        /\ calls[c].pc = "route"
        /\ calls[c].selected_agent = DefaultAgentId
        /\ calls[c].best_score = DefaultScore
        /\ calls[c].reasoning =
              << [part |-> "Selected", items |-> <<NameArgo>>],
                 [part |-> "using default ArgoCD agent", items |-> <<>>] >>

(***************************************************************************)
(* The order of the registry.                                              *)
(***************************************************************************)
\* the keys of self.agents in iteration order
KeyOrder(ags) == [i \in 1..Len(ags) |-> ags[i].id]

\* C31: the registry iterates in the order of first insertion: registering
\* a name that is a key leaves the order of the keys as it is, registering
\* a name that is no key (one that was unregistered before, too) puts it
\* last, and unregistering takes one key out and leaves the others in
\* their order, with their cards.
C31_IterationOrderIsInsertionOrder ==
    [][(phase = "ready" /\ agents' # agents) =>
          CASE last'.op = "register_agent" ->
                  IF HasKey(agents, last'.result.agent_id)
                  THEN KeyOrder(agents') = KeyOrder(agents)
                  ELSE KeyOrder(agents') = Append(KeyOrder(agents), last'.result.agent_id)
            [] last'.op = "add_agent" ->
                  IF HasKey(agents, last'.arg)
                  THEN KeyOrder(agents') = KeyOrder(agents)
                  ELSE KeyOrder(agents') = Append(KeyOrder(agents), last'.arg)
            [] last'.op = "unregister_agent" ->
                  agents' = SelectSeq(agents, LAMBDA item : item.id # last'.result.agent_id)
            [] OTHER -> FALSE]_vars

\* C31 witness: register_agent has replaced the card under the first of
\* two keys, and the key is still the first.
C31_Witness ==
    /\ last.op = "register_agent"
    /\ last.replaced = CardMath2
    /\ Len(agents) = 2
    /\ agents[1] = [id |-> NameMath, card |-> CardMath]

(***************************************************************************)
(* The success of process_request.                                         *)
(***************************************************************************)
\* C32: a call returns success=false only for a selected key that is not
\* in the registry, when the reasoning is generated, when route starts or
\* when the envelope is built; a call whose route node has ended returns
\* success=true if the key is there, whatever the forwarder returned or
\* raised, with the response and the status that route has set.
C32_FailsOnlyOnAbsentKey ==
    [][\A c \in Calls :
          (calls'[c] # calls[c] /\ calls'[c].pc = "done") =>
              LET s == calls[c]
                  r == calls'[c].result
              IN  CASE s.pc \in {"idle", "done"} ->
                          /\ ~r.success
                          /\ r.error[1] = "KeyError"
                          /\ ~HasKey(agents, r.error[2])
                    [] s.pc = "route" ->
                          /\ ~r.success
                          /\ r.error = <<"KeyError", s.selected_agent>>
                          /\ ~HasKey(agents, s.selected_agent)
                    [] s.pc = "envelope" ->
                          IF HasKey(agents, s.selected_agent)
                          THEN /\ r.success
                               /\ r.response = s.response
                               /\ r.metadata.status = s.status
                          ELSE /\ ~r.success
                               /\ r.error = <<"KeyError", s.selected_agent>>
                    [] OTHER -> FALSE]_vars

\* C32 witness: the call has returned success=true with the text that the
\* forwarder returns when its 30 polls are spent.
C32_Witness ==
    \E c \in Calls :
        /\ calls[c].pc = "done"
        /\ calls[c].result.success
        /\ calls[c].result.metadata.status = "completed"
        /\ calls[c].result.response.actual_response = "Task did not complete within timeout"

\* C33: a call whose forwarder has returned the response of the selected
\* agent returns success=true with that response, whatever is unregistered
\* in the meantime.
C33_ObtainedResponseIsReturned ==
    [][\A c \in Calls :
          (ReturnStep(c) /\ calls[c].status = "completed") =>
              /\ calls'[c].result.success
              /\ calls'[c].result.response = calls[c].response]_vars

(***************************************************************************)
(* The score of an agent and the other agents.                             *)
(***************************************************************************)
\* C34: a registry operation leaves the score and the matched skills of
\* every agent whose entry it does not touch as they were, for every
\* request.
C34_ScoreIndependentOfOtherAgents ==
    [][phase = "ready" =>
          \A i \in 1..Len(agents), j \in 1..Len(agents') :
              agents'[j] = agents[i] =>
                  \A request \in ScoredRequests :
                      CalculateAgentScore(request, agents[i].card, skill_keywords')
                          = CalculateAgentScore(request, agents[i].card, skill_keywords)]_vars

(***************************************************************************)
(* The requests of the forwarder.                                          *)
(***************************************************************************)
\* a send or a poll that failed: no reply, a status code outside 2xx, an
\* error field in the reply or no result in it
FailedPost(response) ==
    IF response.status_code \notin 200..299 THEN TRUE
    ELSE \/ "error" \in DOMAIN response.body
         \/ "result" \notin DOMAIN response.body

\* C35: a call sends one message/send and at most 30 tasks/get, all to the
\* URL of the selected agent, the tasks/get only after a message/send that
\* was answered with a task and for the id of that task; after a send or a
\* poll that failed the forwarder sends nothing more.
C35_OneSendBoundedPolls ==
    \A c \in Calls :
        LET s == calls[c]
        IN  /\ s.pc \in {"loop", "poll"} => InForwarder(s)
            /\ InForwarder(s) =>
                  /\ s.traffic.sends = 1
                  /\ s.traffic.polls <= MaxPolls
                  /\ s.pc \in {"loop", "poll"} =>
                        /\ s.endpoint = Lookup(agents, s.selected_agent).url
                        /\ s.task_id = s.sent.body.result.id
                  /\ s.pc = "envelope" =>
                        s.agent_endpoint = Lookup(agents, s.selected_agent).url
                  /\ (s.traffic.polls > 0 \/ s.pc \in {"loop", "poll"}) =>
                        /\ ~FailedPost(s.sent)
                        /\ IsDict(s.sent.body.result)
                        /\ {"id", "status"} \subseteq DOMAIN s.sent.body.result
                  /\ FailedPost(LastReply(s)) =>
                        /\ s.pc = "envelope"
                        /\ s.status = "routing_only"

(***************************************************************************)
(* The events of the executor.                                             *)
(***************************************************************************)
\* the positions of the events of one kind
EventsAt(events, kind) == {n \in 1..Len(events) : events[n].event = kind}

\* C36: the events of an execute that does not raise are: the task if the
\* request had none,
\* one working status, one artifact with the result text, the completion,
\* in this order, also when other executes run in between.  An execute that
\* waits has put the task at most, and the working status if it waits in
\* register_agent; no task is completed without its artifact.  A result with
\* success=false ends in the same way, with the error in the artifact.
C36_EventsInOrder ==
    /\ \A c \in ConcurrentCalls :
          LET x == Running(last)[c]
              task == IF x.has_task THEN <<>> ELSE <<TaskEvent>>
          IN  /\ x.called = "process_request" => x.events = task
              /\ x.called = "register_agent" => x.events = task \o <<WorkingEvent>>
    /\ (Finished(last) # NoExecute /\ "raised" \notin DOMAIN Finished(last)) =>
          LET x == Finished(last)
              events == x.events
              n == Len(events)
          IN  /\ n = (IF x.has_task THEN 3 ELSE 4)
              /\ ~x.has_task => events[1] = TaskEvent
              /\ EventsAt(events, "task") = (IF x.has_task THEN {} ELSE {1})
              /\ events[n - 2] = WorkingEvent
              /\ EventsAt(events, "artifact") = {n - 1}
              /\ events[n - 1].name = "orchestrator_result"
              /\ events[n] = CompletedEvent
              /\ EventsAt(events, "status") = {n - 2, n}
              /\ ("result" \in DOMAIN x) =>
                    /\ events[n - 1].text.ok = x.result.success
                    /\ ~x.result.success =>
                          events[n - 1].text.says = x.result.error

\* C36 witness: process_request has returned success=false for a request
\* that came without a task, while another execute waits for the card of
\* register_agent, and the task has been completed with the error in its
\* artifact.
C36_Witness ==
    LET x == Finished(last)
    IN  /\ x.called = "process_request"
        /\ ~x.has_task
        /\ ~x.result.success
        /\ x.events = <<TaskEvent, WorkingEvent,
                        ArtifactEvent([ok |-> FALSE, says |-> x.result.error]),
                        CompletedEvent>>
        /\ \E c \in ConcurrentCalls : Running(last)[c].called = "register_agent"

(***************************************************************************)
(* The client.                                                             *)
(***************************************************************************)
\* the reply shows a task in one of the two states that end the polling
EndsPolling(reply) == reply.is = "Task" /\ reply.state \in {"completed", "failed"}

\* C37: send_orchestrator_command ends with a dict that has a boolean
\* success.  For a Task it polls at most int(timeout_seconds /
\* poll_interval) times and goes on only after replies that show neither
\* completed nor failed; it returns success=true with the text of the
\* artifacts for the poll that shows completed, success=false for the one
\* that shows failed, and the timeout failure when the budget is spent.
C37_CommandPollsWithinBudget ==
    \A c \in Calls :
        LET s == calls[c]
        IN  /\ s.pc \in {"loop", "poll"} =>
                  /\ s.max_polls = (8 * s.timeout_seconds) \div s.poll_interval
                  /\ s.polls <= s.max_polls
                  /\ s.pc = "poll" => s.polls < s.max_polls
                  /\ s.sleeps = s.polls + (IF s.pc = "poll" THEN 1 ELSE 0)
                  /\ ~EndsPolling(s.polled)
                  /\ s.polled.is # "raised"
            /\ s.pc = "done" =>
                  /\ s.result.success \in BOOLEAN
                  /\ ("error" \in DOMAIN s.result) <=> ~s.result.success
                  /\ ("data" \in DOMAIN s.result) <=> s.result.success
                  /\ s.polls > 0 =>
                        /\ s.sent.is = "Task"
                        /\ s.polls <= (8 * s.timeout_seconds) \div s.poll_interval
                        /\ s.polls = s.sleeps
                  /\ (s.polled.is = "Task" /\ s.polled.state = "completed") =>
                        /\ s.result.success
                        /\ s.result.data = ClientArtifactsText(s.polled.artifacts, 1, "")
                  /\ (s.polled.is = "Task" /\ s.polled.state = "failed") =>
                        /\ ~s.result.success
                        /\ s.result.error = "Task failed"
                  /\ (s.sent.is = "Task" /\ s.poll_interval # 0
                      /\ ~EndsPolling(s.polled) /\ s.polled.is # "raised") =>
                        /\ s.polls = (8 * s.timeout_seconds) \div s.poll_interval
                        /\ ~s.result.success
                        /\ s.result.error = "Task timed out"

\* C37 witness: with timeout_seconds 1 and poll_interval 0.5 the second of
\* the two polls has shown the task completed with a text in its artifacts.
C37_Witness ==
    \E c \in Calls :
        /\ calls[c].pc = "done"
        /\ calls[c].timeout_seconds = 1
        /\ calls[c].poll_interval = 4
        /\ calls[c].polls = 2
        /\ calls[c].polled.is = "Task"
        /\ calls[c].polled.state = "completed"
        /\ calls[c].result = [success |-> TRUE, data |-> "second text", task_id |-> TaskId]

(***************************************************************************)
(* C38: the task loop ends at :q or quit.                                  *)
(***************************************************************************)
\* C38: once :q or quit has been entered at a "What do you want to send to
\* the agent?" prompt, be it the first prompt of a task or a follow-up raised
\* by input-required, the task loop has ended: no prompt is up and no message
\* goes out.
C38_QuitEndsTheTaskLoop ==
    \A c \in Calls :
        (calls[c].pc \in {"prompt", "ended", "raised"} /\ IsQuit(calls[c].prompt))
            => calls[c].pc = "ended"

(***************************************************************************)
(* C39: the two flags of get_agent_response.                               *)
(***************************************************************************)
\* the stored structured response is a ResponseFormat with this status
StoredStatusIs(values, status) ==
    /\ "structured_response" \in DOMAIN values
    /\ values.structured_response.type = "ResponseFormat"
    /\ values.structured_response.status = status

\* C39: get_agent_response reports is_task_complete = true exactly when the
\* structured response stored for the thread has status completed; in every
\* other case (input_required, error, nothing stored, something stored that is
\* no ResponseFormat) it reports is_task_complete = false with
\* require_user_input = true, so exactly one of the two flags is true.
C39_CompleteIffStoredCompleted ==
    [][\A c \in Calls :
          last'.op = "get_agent_response" =>
              LET values == calls[c].graph[last'.thread_id]
                  response == last'.response
              IN  /\ response.is_task_complete \in BOOLEAN
                  /\ response.require_user_input \in BOOLEAN
                  /\ response.is_task_complete <=> StoredStatusIs(values, "completed")
                  /\ ~response.is_task_complete => response.require_user_input
                  /\ response.is_task_complete # response.require_user_input]_vars

\* a completed response was read for one thread while the other thread's
\* state holds an error response
C39_Witness ==
    /\ last.op = "get_agent_response"
    /\ last.response = AgentResponse(TRUE, FALSE, "Synced guestbook")
    /\ \E c \in Calls, thread_id \in Threads \ {last.thread_id} :
          StoredStatusIs(calls[c].graph[thread_id], "error")

====
